---- MODULE Spec2Model ----
(***************************************************************************)
(* Tree-of-Thought execution engine of gemini-deepthink-clone.             *)
(*                                                                         *)
(* Two versions of the engine live in the repository and both are          *)
(* modelled; `engine` says which one a session runs:                       *)
(*   "runToT"     services/backbones/tot.backbone.ts (prompts injected,    *)
(*                inline analyzeDecomposition / aggregateChildSolutions,   *)
(*                leaf = runSynthesis)                                     *)
(*   "executeToT" services/totOrchestrator.ts (decomposer and aggregator   *)
(*                services, leaf = orchestrateDeepThink)                   *)
(*                                                                         *)
(* Every action is one synchronous block of processNode / runToT, i.e. the *)
(* code between two awaits; each such block ends with exactly one          *)
(* onToTUpdate(state) call, so the states of the model are the snapshots   *)
(* the observer sees.  Node ids (Math.random strings in the code, taken to *)
(* be distinct) are the positions 1, 2, ... in creation order.  A node's   *)
(* query and title are not modelled: no step of the engine reads them.     *)
(***************************************************************************)
EXTENDS Integers, Sequences, FiniteSets, TLC

\* ------------------------------------------------------------------ bounds
\* largest maxDepth a session is started with (config.maxToTDepth)
MaxDepthBound == 3
\* largest number of sub-problems in one decomposition response
MaxSub == 3
\* largest number of nodes in a tree (responses that would exceed it are
\* not drawn)
MaxNodes == 5

\* largest number of nodes of a session followed for its node order only
MaxOrderNodes == 9

\* largest number of strategies in one divergence response
MaxStrategies == 4

VARIABLES
  engine,       \* "runToT" | "executeToT"
  maxDepth,     \* state.maxDepth
  rootNodeId,   \* state.rootNodeId
  nodes,        \* state.nodes : id -> ToTNode
  nodeOrder,    \* state.nodeOrder
  status,       \* state.status
  finalResult,  \* state.finalResult (NoValue while unset)
  pc,           \* id -> position of the processNode(id) task
  decision,     \* the value analyzeDecomposition returned last, and to which node
  calls,        \* id -> completion requests / usage notifications of the node
  session,      \* position of runToT / executeToT itself and what it returned
  pipe,         \* the run of the Deliberation Pipeline that is followed step by step
  svc           \* the call of a service function that is followed: its
                \* arguments, its position, its requests and what it returned

vars == <<engine, maxDepth, rootNodeId, nodes, nodeOrder, status, finalResult,
          pc, decision, calls, session, pipe, svc>>

NoValue == "undefined"

\* no call of a service function is followed
NoSvc == [fn |-> "none", pc |-> "idle"]

\* node.result of a node that has none
NoResult == [type |-> NoValue, solution |-> NoValue]

Engines == {"runToT", "executeToT"}

NodeStatuses ==
  {"pending", "decomposing", "executing", "aggregating", "complete", "failed"}

TerminalStatuses == {"complete", "failed"}

\* ------------------------------------------------------------ node helpers

createNode(parentId, depth) ==
  [parentId    |-> parentId,
   depth       |-> depth,
   status      |-> "pending",
   children    |-> <<>>,
   result      |-> NoResult,
   error       |-> NoValue,
   completedAt |-> FALSE]

(* The update of a task that works on the state captured when its parent   *)
(* created it: what the siblings wrote since is overwritten.               *)
updateNodeInState_captured(ns, nodeId, update) ==
  [m \in DOMAIN ns |->
     IF m = nodeId
       THEN [f \in DOMAIN ns[m] |->
               IF f \in DOMAIN update THEN update[f] ELSE ns[m][f]]
       ELSE IF ns[m].parentId = ns[nodeId].parentId /\ ns[m].parentId # 0
              THEN [ns[m] EXCEPT !.status = "pending"]
              ELSE ns[m]]

\* { ...state.nodes, [nodeId]: { ...state.nodes[nodeId], ...update } }
updateNodeInState(ns, nodeId, update) ==
  [ns EXCEPT ![nodeId] =
     [f \in DOMAIN ns[nodeId] |->
        IF f \in DOMAIN update THEN update[f] ELSE ns[nodeId][f]]]

\* ids of the k nodes created next
FreshIds(k) == [i \in 1..k |-> Len(nodeOrder) + i]

\* mutant of ChildNodes: below the first level the children name their
\* grandparent as their parent
ChildNodes_adopted(ns, parentId, k) ==
  [i \in 1..k |->
     [id |-> FreshIds(k)[i],
      node |-> createNode(IF ns[parentId].parentId = 0 THEN parentId
                          ELSE ns[parentId].parentId,
                          ns[parentId].depth + 1)]]

\* the child nodes of one decomposition with k sub-problems, as
\* decomposition.subProblems.map((sp) => createNode(.., nodeId, node.depth + 1))
\* builds them: each entry is a node and the id createNode gave it
ChildNodes(ns, parentId, k) ==
  [i \in 1..k |-> [id |-> FreshIds(k)[i],
                   node |-> createNode(parentId, ns[parentId].depth + 1)]]

\* newNodes[child.id] = child for every child; parent.children = childIds
addChildrenToState(ns, parentId, children) ==
  LET childIds == [i \in 1..Len(children) |-> children[i].id]
      added == [id \in {childIds[i] : i \in 1..Len(children)} |->
                  (CHOOSE c \in {children[i] : i \in 1..Len(children)} :
                     c.id = id).node]
  IN  updateNodeInState(ns @@ added, parentId, [children |-> childIds])

getNodeSolution(node) ==
  IF node.result = NoResult THEN "" ELSE node.result.solution

\* mutant of childSolutions: the entries follow the order in which the
\* children finished (the reverse of the listed order when a later child
\* finished before an earlier one)
childSolutions_asFinished(ns, nodeId) ==
  LET k == Len(ns[nodeId].children)
  IN  [i \in 1..k |->
         LET childId == IF calls[nodeId].overtaken
                          THEN ns[nodeId].children[k + 1 - i]
                          ELSE ns[nodeId].children[i]
         IN  [child |-> childId, solution |-> getNodeSolution(ns[childId])]]

\* mutant of childSolutions: the children without a result are left out
childSolutions_completedOnly(ns, nodeId) ==
  LET withResult(childId) == ns[childId].result # NoResult
  IN  [i \in 1..Len(SelectSeq(ns[nodeId].children, withResult)) |->
         LET childId == SelectSeq(ns[nodeId].children, withResult)[i]
         IN  [child |-> childId, solution |-> getNodeSolution(ns[childId])]]

\* state.nodes[nodeId].children.map((childId) =>
\*   ({ query: child.query, solution: getNodeSolution(child) }))
\* the aggregation input; an entry's query is stood for by the child's id
childSolutions(ns, nodeId) ==
  [i \in 1..Len(ns[nodeId].children) |->
     LET childId == ns[nodeId].children[i]
     IN  [child |-> childId, solution |-> getNodeSolution(ns[childId])]]

Range(s) == {s[i] : i \in 1..Len(s)}

Min(a, b) == IF a < b THEN a ELSE b

\* ------------------------------------------------- completion responses
\* A decomposition response, by what the parsers look at:
\*   kind     "throw" (generateContent rejects), "empty" (no text),
\*            "unparsable" (JSON.parse throws), "json"
\*   should   parsed.shouldDecompose: the booleans, another truthy value
\*            ("truthy"), or absent
\*   n        parsed.subProblems.length (0 also stands for a non-array)
\*   quality  "valid": every element has string id, title and query;
\*            "partial": one element is an object without a string query;
\*            "null": one element is null
DecompResponses(room) ==
  [kind : {"throw", "empty", "unparsable"}, should : {"absent"}, n : {0},
   quality : {"valid"}]
  \cup
  {r \in [kind : {"json"}, should : {"true", "false", "truthy", "absent"},
          n : 0..Min(MaxSub, room), quality : {"valid", "partial", "null"}] :
     r.quality # "valid" => r.n >= 1}

NoDecision == [node |-> 0, shouldDecompose |-> FALSE, subProblems |-> 0,
               threw |-> FALSE]

\* tot.backbone.ts analyzeDecomposition(model, prompt): always one request,
\* no depth rule, no validation of the sub-problems
backbone_analyzeDecomposition(r) ==
  IF r.kind = "throw"
    THEN [NoDecision EXCEPT !.threw = TRUE]
  ELSE IF r.kind = "json"
    THEN [node |-> 0, shouldDecompose |-> r.should \in {"true", "truthy"},
          subProblems |-> r.n, threw |-> FALSE]
  ELSE NoDecision

\* decomposer: validateSubProblems keeps the elements with string id, title
\* and query
validateSubProblems(r) ==
  IF r.quality = "valid" THEN r.n ELSE r.n - 1

DEFAULT_DECOMPOSITION ==
  [node |-> 0, shouldDecompose |-> FALSE, subProblems |-> 0, threw |-> FALSE]

\* mutant of decomposer_analyzeDecomposition: the "< 2 sub-problems"
\* override is missing
decomposer_analyzeDecomposition_noOverride(r, depth, max) ==
  IF depth >= max
    THEN NoDecision
  ELSE IF r.kind # "json" \/ r.should \notin {"true", "false"}
    THEN DEFAULT_DECOMPOSITION
  ELSE [node |-> 0, shouldDecompose |-> r.should = "true",
        subProblems |-> IF r.should = "true" THEN validateSubProblems(r) ELSE 0,
        threw |-> FALSE]

\* decomposer analyzeDecomposition(model, query, depth, maxDepth, force)
decomposer_analyzeDecomposition(r, depth, max) ==
  IF depth >= max
    THEN NoDecision
  ELSE IF r.kind # "json" \/ r.should \notin {"true", "false"}
    THEN DEFAULT_DECOMPOSITION
  ELSE LET subs == IF r.should = "true" THEN validateSubProblems(r) ELSE 0
       IN  [node |-> 0, shouldDecompose |-> r.should = "true" /\ subs >= 2,
            subProblems |-> subs, threw |-> FALSE]

\* mutant of IssuesDecompositionRequest: the depth rule compares with >
IssuesDecompositionRequest_strict(e, depth, max) ==
  e = "runToT" \/ depth <= max

\* whether the analysis of a node at `depth` issues a completion request
IssuesDecompositionRequest(e, depth, max) ==
  e = "runToT" \/ depth < max

analyzeDecomposition(e, r, depth, max) ==
  IF e = "runToT" THEN backbone_analyzeDecomposition(r)
  ELSE decomposer_analyzeDecomposition(r, depth, max)

\* mutants of canDecompose: no depth ceiling at all; ceiling one too high
canDecompose_unbounded(e, depth, max) == TRUE

canDecompose_offByOne(e, depth, max) ==
  e = "executeToT" \/ depth < max

\* runToT: const canDecompose = node.depth < maxDepth - 1; executeToT has
\* no such test
canDecompose(e, depth, max) ==
  e = "executeToT" \/ depth < max - 1

\* mutants of Admitted: a single sub-problem is enough; the analyzer's
\* shouldDecompose is not consulted
Admitted_single(e, depth, max, d) ==
  /\ canDecompose(e, depth, max)
  /\ d.shouldDecompose
  /\ d.subProblems >= 1

Admitted_ignoresDecision(e, depth, max, d) ==
  /\ canDecompose(e, depth, max)
  /\ d.subProblems >= 2

\* the condition of the `if` that creates the children
Admitted(e, depth, max, d) ==
  /\ canDecompose(e, depth, max)
  /\ d.shouldDecompose
  /\ d.subProblems >= 2

\* ------------------------------------------ leaf pipeline and aggregation
\* What the leaf's call of the Deliberation Pipeline does, seen from
\* processNode:
\*   "blueprint"  it returns a process state holding masterBlueprint
\*   "caught"     an exception inside it was caught by its own catch-all,
\*                which returns without masterBlueprint
\*   "throw"      the call rejects: in runSynthesis the catch-all itself
\*                calls prompts.final(query), which is caller-supplied code;
\*                orchestrateDeepThink's catch-all calls nothing that throws
PipelineOutcomes(e) ==
  IF e = "runToT" THEN {"blueprint", "caught", "throw"}
  ELSE {"blueprint", "caught"}

\* the blueprint text stored in the leaf result
LeafBlueprint(e, outcome) ==
  IF outcome = "blueprint" THEN "blueprint"
  ELSE IF e = "runToT" THEN "leafPrompt"
  ELSE "Direct response"

AggregationResponses == {"throw", "empty", "unparsable", "solution", "nosolution"}

\* tot.backbone.ts aggregateChildSolutions(model, prompt): the request is
\* outside the try
backbone_aggregateChildSolutions(r) ==
  [threw |-> r = "throw",
   aggregatedSolution |->
     IF r = "solution" THEN "aggregated"
     ELSE IF r = "unparsable" THEN "responseText"
     ELSE ""]

\* aggregator aggregateChildSolutions(model, parentQuery, childSolutions)
\* for two or more children: every failure ends in createFallbackAggregation
aggregator_aggregateChildSolutions(r) ==
  [threw |-> FALSE,
   aggregatedSolution |->
     IF r = "solution" THEN "aggregated" ELSE "fallbackConcatenation"]

aggregateChildSolutions(e, r) ==
  IF e = "runToT" THEN backbone_aggregateChildSolutions(r)
  ELSE aggregator_aggregateChildSolutions(r)

\* ------------------------------------------------ Deliberation Pipeline
\* Three versions of the pipeline are in the repository:
\*   "runSynthesis"          backbones/synthesis.backbone.ts, the leaf of
\*                           runToT (isToTMode = true) and the Synthesis
\*                           backbone (isToTMode = false)
\*   "orchestrateDeepThink"  the orchestrator service the leaf of executeToT
\*                           calls
\*   "geminiService"         orchestrateDeepThink of geminiService.ts
\*                           (hypothesize, verify, select, synthesize), the
\*                           only one with Batch Recovery Mode
Variants == {"runSynthesis", "orchestrateDeepThink", "geminiService"}

LeafVariant(e) ==
  IF e = "runToT" THEN "runSynthesis" ELSE "orchestrateDeepThink"

\* const MAX_EXPLORE_PATHS = 3
MAX_EXPLORE_PATHS == 3

\* for (let i = 0; i < hWithSteps.length; i += 3) ... slice(i, i + 3)
BATCH_SIZE == 3

\* processState.state at each phase
InitialState(v) == IF v = "geminiService" THEN "hypothesizing" ELSE "diverging"
FanOutState(v) == IF v = "geminiService" THEN "verifying" ELSE "critiquing"

\* processState and the position of one pipeline run
\*   caller    "none" (no run is followed), "leaf" (processNode of `node`)
\*             or "flat" (the pipeline is the whole reasoning pass)
\*   pc        "idle", "divergence", "critique", "recovery", "cooldown",
\*             "synthesis" (the request awaited), "returned"
\*   fanout    per strategy, the request of the parallel fan-out:
\*             "inflight", "parsed", "default", "rejected", "rejected429"
\*   batch     per strategy, the request of Batch Recovery Mode: "waiting"
\*             before its batch starts, then as fanout
\*   outcome   how the call ended, as PipelineOutcomes names it ("plan":
\*             geminiService, which has no blueprint)
\*   parsed    the number of strategies the divergence response parsed to
\*   strategies  the ids of the strategies that entered the critique phase
\*             (strategiesWithSteps, hWithSteps), in their order
\*   fanoutError  the rejection Promise.all of the fan-out ended with
\*   raised    the exception the catch-all received: the phase it was
\*             raised in, and its cause: "service" (a request rejected),
\*             "rateLimit" (rejected with a rate-limit error), "typeError"
\*             (a field read of a response value that lacks it)
NoRaised == [phase |-> NoValue, cause |-> NoValue]

NoPipe ==
  [caller |-> "none", node |-> 0, variant |-> NoValue, isToTMode |-> FALSE,
   pc |-> "idle", state |-> NoValue, parsed |-> 0, strategies |-> <<>>,
   hypotheses |-> <<>>,
   fanout |-> <<>>, fanoutError |-> NoValue,
   batch |-> <<>>, batchAt |-> 0, recovery |-> FALSE,
   masterBlueprint |-> NoValue,
   usage |-> 0, requests |-> [divergence |-> 0, critique |-> 0, synthesis |-> 0],
   raised |-> NoRaised, outcome |-> NoValue]

\* A divergence response, by what the parser looks at: the request rejects
\* ("throw"), no text, text that is not JSON, the JSON value null, another
\* JSON value that is not an array ("object"), an array of n strategies
DivergenceResponses ==
  [kind : {"throw", "empty", "unparsable", "null", "object"}, n : {0}]
  \cup [kind : {"array"}, n : 0..MaxStrategies]

\* try { strategies = JSON.parse(text || "[]") } catch { strategies = [default] }
\* strategies are named by their position in the response, the default
\* strategy is 0
parseStrategies(r) ==
  IF r.kind = "unparsable" THEN [value |-> "array", items |-> <<0>>]
  ELSE IF r.kind = "empty" THEN [value |-> "array", items |-> <<>>]
  ELSE IF r.kind = "array" THEN [value |-> "array", items |-> [i \in 1..r.n |-> i]]
  ELSE [value |-> r.kind, items |-> <<>>]

\* mutant of capStrategies: the cap is missing
capStrategies_noCap(v, items, isToTMode) == items

\* runSynthesis: if (isToTMode) strategies = strategies.slice(0, 3); the
\* other versions have no cap
capStrategies(v, items, isToTMode) ==
  IF v = "runSynthesis" /\ isToTMode /\ Len(items) > MAX_EXPLORE_PATHS
    THEN SubSeq(items, 1, MAX_EXPLORE_PATHS)
    ELSE items

\* A critique response: the request rejects with a rate-limit error
\* ("throw429") or another error ("throw"), the JSON value null, no text,
\* text that is not JSON, a JSON object
CritiqueResponses == {"throw429", "throw", "null", "empty", "unparsable", "json"}

\* critiqueSingle / verifySingle: what the promise of one strategy settles
\* to. null.critical_flaws is a TypeError; text that is not JSON keeps the
\* default critique; no text parses "{}"
critiqueSingle(r) ==
  IF r = "throw429" THEN "rejected429"
  ELSE IF r = "throw" THEN "rejected"
  ELSE IF r = "null" THEN "typeError"
  ELSE IF r = "unparsable" THEN "default"
  ELSE "parsed"

Settled == {"parsed", "default"}
Rejections == {"rejected", "rejected429", "typeError"}

\* mutant of isRateLimit: every error counts as a rate-limit signal
isRateLimit_any(error) == TRUE

\* error?.status === 429 || message includes "429", "quota", "too many"
isRateLimit(error) == error = "rejected429"

\* the cause of a rejection of critiqueSingle
CauseOf(error) ==
  IF error = "rejected429" THEN "rateLimit"
  ELSE IF error = "rejected" THEN "service"
  ELSE "typeError"

\* A synthesis response: the request rejects, no text, text that is not
\* JSON, the JSON value null, an object without safeguards, an object with
\* safeguards and no blueprint text, a full blueprint
SynthesisResponses ==
  {"throw", "empty", "unparsable", "null", "nosafeguards", "noblueprint", "json"}

\* let masterBlueprint = {default}; try { masterBlueprint = JSON.parse(text || "{}") } catch {}
parseBlueprint(r) ==
  IF r = "unparsable"
    THEN [blueprint |-> "Execute standard response.", safeguards |-> TRUE]
  ELSE IF r = "json" THEN [blueprint |-> "blueprint", safeguards |-> TRUE]
  ELSE IF r = "noblueprint" THEN [blueprint |-> NoValue, safeguards |-> TRUE]
  ELSE IF r = "nosafeguards" THEN [blueprint |-> "blueprint", safeguards |-> FALSE]
  ELSE [blueprint |-> NoValue, safeguards |-> FALSE]

\* mutant of SynthesisThrows: a blueprint without safeguards is read safely
SynthesisThrows_guarded(v, r) == r = "throw"

\* the synthesis step raises: the request rejected, or
\* masterBlueprint.safeguards.length (synthesisResult.plan in geminiService)
\* is read of a value that has no such field
SynthesisThrows(v, r) ==
  IF v = "geminiService" THEN r \in {"throw", "null"}
  ELSE r \in {"throw", "null", "empty", "nosafeguards"}

\* mutant of CatchOutcomes: the catch-all throws the exception on
CatchOutcomes_rethrows(v) == {"throw"}

\* the catch-all: runSynthesis returns prompts.final(query), which is
\* caller-supplied code and may throw; the others return the message
CatchOutcomes(v) ==
  IF v = "runSynthesis" THEN {"caught", "throw"} ELSE {"caught"}

\* ------------------------------------------------------------- scheduling
NodeIds == DOMAIN nodes

Children(n) == Range(nodes[n].children)

LastChild(n) == nodes[n].children[Len(nodes[n].children)]

NoCalls ==
  [decomposition |-> 0, aggregation |-> 0, usage |-> 0, analyses |-> 0,
   force |-> FALSE, childSolutions |-> << >>, overtaken |-> FALSE]

\* executeToT(query, config, maxDepth, forceDecomposition, ...): the values
\* of the parameter; runToT has no such parameter
ForceInputs(e) == IF e = "executeToT" THEN BOOLEAN ELSE {FALSE}

\* a session of engine e that has just been started
StartedSessions(e) ==
  {[pc |-> "running", prompt |-> NoValue, forceDecomposition |-> f] :
     f \in ForceInputs(e)}

NoSession == [pc |-> "none", prompt |-> NoValue, forceDecomposition |-> FALSE]

\* mutant of shouldForce: the depth is not looked at
shouldForce_everyDepth(e, forceDecomposition, depth) ==
  IF e = "runToT" THEN TRUE ELSE forceDecomposition

\* runToT: const shouldForce = node.depth === 0
\* executeToT: const shouldForce = forceDecomposition && node.depth === 0
shouldForce(e, forceDecomposition, depth) ==
  IF e = "runToT" THEN depth = 0 ELSE forceDecomposition /\ depth = 0

\* The task of n writes its terminal status. Kept with the parent: whether
\* one of its children has done so while a child listed before it was
\* still under way (the children finish in another order than listed).
FinishOrder(n) ==
  IF n = rootNodeId THEN calls
  ELSE [calls EXCEPT ![nodes[n].parentId].overtaken =
          @ \/ \E c \in Children(nodes[n].parentId) :
                 c < n /\ pc[c] \notin {"resolved", "rejected"}]

\* a parent is inside childNodes.map((child) => processNode(child.id)):
\* the children's first blocks run one after the other, nothing else runs
Fanning == \E n \in NodeIds : pc[n] = "fanout"

\* mutant of JoinResolved: the join continues with the first child done
JoinResolved_any(n) == \E c \in Children(n) : pc[c] = "resolved"

\* Promise.all of the children's tasks
JoinResolved(n) == \A c \in Children(n) : pc[c] = "resolved"
JoinRejected(n) == \E c \in Children(n) : pc[c] = "rejected"

\* the strategies of the batch Batch Recovery Mode is waiting for
CurrentBatch ==
  {i \in DOMAIN pipe.batch :
     pipe.batchAt <= i /\ i < pipe.batchAt + BATCH_SIZE}

\* mutant of FanOutResolved: the join does not wait for every critique
FanOutResolved_any == \E i \in DOMAIN pipe.fanout : pipe.fanout[i] \in Settled

\* Promise.all of the critique promises: of the fan-out, of the current batch
FanOutResolved == \A i \in DOMAIN pipe.fanout : pipe.fanout[i] \in Settled
FanOutRejected == \E i \in DOMAIN pipe.fanout : pipe.fanout[i] \in Rejections
BatchResolved == \A i \in CurrentBatch : pipe.batch[i] \in Settled
BatchRejected == \E i \in CurrentBatch : pipe.batch[i] \in Rejections

\* the promise reactions of the followed pipeline run and of its caller
PipeMicrotaskPending ==
  \/ pipe.pc = "critique" /\ (FanOutResolved \/ FanOutRejected)
  \/ pipe.pc = "recovery" /\ (BatchResolved \/ BatchRejected)
  \/ pipe.caller = "leaf" /\ pipe.pc = "returned" /\ pc[pipe.node] = "leaf"

\* A continuation that needs no completion response is a promise reaction:
\* it runs before any response is delivered.
MicrotaskPending ==
  \/ Fanning
  \/ \E n \in NodeIds :
       \/ pc[n] = "decomp" /\ calls[n].decomposition = 0
       \/ pc[n] = "join" /\ (JoinResolved(n) \/ JoinRejected(n))
  \/ session.pc = "running" /\ pc[rootNodeId] \in {"resolved", "rejected"}
  \/ PipeMicrotaskPending

\* ------------------------------------------------------------------- Init
Init ==
  /\ engine \in Engines
  /\ maxDepth \in 1..MaxDepthBound
  /\ rootNodeId = 1
  /\ nodes = (1 :> createNode(0, 0))
  /\ nodeOrder = <<1>>
  /\ status = "running"
  /\ finalResult = NoValue
  /\ pc = (1 :> "idle")
  /\ decision = NoDecision
  /\ calls = (1 :> NoCalls)
  /\ session \in StartedSessions(engine)
  /\ pipe = NoPipe
  /\ svc = NoSvc

\* -------------------------------------------------------------- processNode
\* PHASE 1 up to the await: status decomposing, onUsage, and the analyzer
\* called (its request, if it makes one, is issued here)
BeginNode(n) ==
  /\ pc[n] = "idle"
  /\ IF n = rootNodeId
       THEN ~Fanning
       ELSE /\ pc[nodes[n].parentId] = "fanout"
            /\ \A c \in Children(nodes[n].parentId) : c < n => pc[c] # "idle"
  /\ nodes' = updateNodeInState(nodes, n, [status |-> "decomposing"])
  /\ calls' = [calls EXCEPT
       ![n].usage = @ + 1,
       ![n].analyses = @ + 1,
       ![n].force = shouldForce(engine, session.forceDecomposition,
                                nodes[n].depth),
       ![n].decomposition =
          IF IssuesDecompositionRequest(engine, nodes[n].depth, maxDepth)
            THEN @ + 1 ELSE @]
  /\ pc' = [c \in NodeIds |->
       IF c = n THEN "decomp"
       ELSE IF n # rootNodeId /\ c = nodes[n].parentId /\ n = LastChild(c)
         THEN "join"
       ELSE pc[c]]
  /\ UNCHANGED <<engine, maxDepth, rootNodeId, nodeOrder, status, finalResult,
                 decision, session,
                 pipe, svc>>

\* the response to the decomposition request of n is delivered (or, when the
\* analyzer made no request, its promise reaction runs)
DecisionDue(n) ==
  /\ pc[n] = "decomp"
  /\ IF calls[n].decomposition = 0 THEN ~Fanning ELSE ~MicrotaskPending

\* the nodes a session may create: more in the sessions that are followed
\* for the creation of their nodes only (OrderSpec)
NodeBound == IF svc.fn = "processNode" THEN MaxOrderNodes ELSE MaxNodes

Room == NodeBound - Len(nodeOrder)

\* subProblems.map((sp) => createNode(sp.query, ...)) reads a property of
\* null: only runToT can get here, the decomposer drops such elements
MapThrows(e, r) == e = "runToT" /\ r.quality = "null"

\* the analyzer's request rejects (runToT: it is outside any try), or the
\* creation of the child nodes throws: processNode(n) rejects, the node
\* stays `decomposing`
DecompositionRejects(n) ==
  /\ DecisionDue(n)
  /\ \E r \in DecompResponses(Room) :
       LET d == analyzeDecomposition(engine, r, nodes[n].depth, maxDepth)
       IN  /\ d.threw \/ (Admitted(engine, nodes[n].depth, maxDepth, d)
                            /\ MapThrows(engine, r))
           /\ decision' = [d EXCEPT !.node = n]
  /\ pc' = [pc EXCEPT ![n] = "rejected"]
  /\ UNCHANGED <<engine, maxDepth, rootNodeId, nodes, nodeOrder, status,
                 finalResult, calls, session,
                 pipe, svc>>

\* decomposition admitted: CREATE CHILD NODES, addChildrenToState, one
\* snapshot; the fan-out follows in the same block (BeginNode of each child)
CreateChildren(n) ==
  /\ DecisionDue(n)
  /\ \E r \in DecompResponses(Room) :
       LET d == analyzeDecomposition(engine, r, nodes[n].depth, maxDepth)
           k == d.subProblems
           ids == FreshIds(k)
       IN  /\ ~d.threw
           /\ Admitted(engine, nodes[n].depth, maxDepth, d)
           /\ ~MapThrows(engine, r)
           /\ decision' = [d EXCEPT !.node = n]
           /\ nodes' = addChildrenToState(nodes, n, ChildNodes(nodes, n, k))
           /\ nodeOrder' = nodeOrder \o ids
           /\ pc' = [pc EXCEPT ![n] = "fanout"] @@ [c \in Range(ids) |-> "idle"]
           /\ calls' = calls @@ [c \in Range(ids) |-> NoCalls]
  /\ UNCHANGED <<engine, maxDepth, rootNodeId, status, finalResult, session,
                 pipe, svc>>

\* the pipeline up to its first await: processState initialised, onUsage,
\* the divergence request issued
Started(p) ==
  [p EXCEPT !.pc = "divergence", !.state = InitialState(p.variant),
            !.usage = 1, !.requests.divergence = 1]

\* LEAF NODE: status executing and the pipeline call
ExecuteLeaf(n) ==
  /\ DecisionDue(n)
  /\ \E r \in DecompResponses(Room) :
       LET d == analyzeDecomposition(engine, r, nodes[n].depth, maxDepth)
       IN  /\ ~d.threw
           /\ ~Admitted(engine, nodes[n].depth, maxDepth, d)
           /\ decision' = [d EXCEPT !.node = n]
  /\ nodes' = updateNodeInState(nodes, n, [status |-> "executing"])
  /\ pc' = [pc EXCEPT ![n] = "leaf"]
  /\ pipe' = IF pipe.node = n THEN Started(pipe) ELSE pipe
  /\ UNCHANGED <<engine, maxDepth, rootNodeId, nodeOrder, status, finalResult,
                 calls, session, svc>>

\* the pipeline call of leaf n has ended with outcome o: what the followed
\* run ended with, or any outcome when the run is not followed
LeafDue(n, o) ==
  /\ pc[n] = "leaf"
  /\ IF pipe.node = n
       THEN pipe.pc = "returned" /\ o = pipe.outcome /\ ~Fanning
       ELSE ~MicrotaskPending /\ o \in PipelineOutcomes(engine)

\* thinkingProcess.masterBlueprint.blueprint, or the fallback blueprint
LeafSolution(n, o) ==
  IF pipe.node = n /\ o = "blueprint" THEN pipe.masterBlueprint.blueprint
  ELSE LeafBlueprint(engine, o)

\* the pipeline call returned: result {type: "leaf"}, status complete
LeafCompletes(n) ==
  /\ \E o \in {"blueprint", "caught"} :
       /\ LeafDue(n, o)
       /\ nodes' = updateNodeInState(nodes, n,
                     [status |-> "complete",
                      result |-> [type |-> "leaf",
                                  solution |-> LeafSolution(n, o)],
                      completedAt |-> TRUE])
  /\ pc' = [pc EXCEPT ![n] = "resolved"]
  /\ calls' = FinishOrder(n)
  /\ UNCHANGED <<engine, maxDepth, rootNodeId, nodeOrder, status, finalResult,
                 decision, session,
                 pipe, svc>>

\* mutant of LeafFails: the catch also takes an exception raised after
\* the node was marked complete (the try block reaches past that update)
LeafFails_late(n) ==
  /\ \/ pc[n] = "leaf"
     \/ pc[n] = "resolved" /\ nodes[n].result.type = "leaf"
  /\ ~MicrotaskPending
  /\ "throw" \in PipelineOutcomes(engine)
  /\ nodes' = updateNodeInState(nodes, n,
                [status |-> "failed", error |-> "message",
                 completedAt |-> TRUE])
  /\ pc' = [pc EXCEPT ![n] = "resolved"]
  /\ calls' = FinishOrder(n)
  /\ UNCHANGED <<engine, maxDepth, rootNodeId, nodeOrder, status, finalResult,
                 decision, session,
                 pipe, svc>>

\* mutant of LeafFails: no catch around the pipeline call, the exception
\* leaves processNode
LeafFails_propagates(n) ==
  /\ LeafDue(n, "throw")
  /\ nodes' = updateNodeInState(nodes, n,
                [status |-> "failed", error |-> "message",
                 completedAt |-> TRUE])
  /\ pc' = [pc EXCEPT ![n] = "rejected"]
  /\ calls' = FinishOrder(n)
  /\ UNCHANGED <<engine, maxDepth, rootNodeId, nodeOrder, status, finalResult,
                 decision, session,
                 pipe, svc>>

\* the pipeline call threw: the catch of the leaf branch, status failed
LeafFails(n) ==
  /\ LeafDue(n, "throw")
  /\ nodes' = updateNodeInState(nodes, n,
                [status |-> "failed", error |-> "message",
                 completedAt |-> TRUE])
  /\ pc' = [pc EXCEPT ![n] = "resolved"]
  /\ calls' = FinishOrder(n)
  /\ UNCHANGED <<engine, maxDepth, rootNodeId, nodeOrder, status, finalResult,
                 decision, session,
                 pipe, svc>>

\* await Promise.all(...) rejects with the first rejected child: the
\* exception leaves processNode(n), nothing is written
JoinRejects(n) ==
  /\ pc[n] = "join"
  /\ ~Fanning
  /\ JoinRejected(n)
  /\ pc' = [pc EXCEPT ![n] = "rejected"]
  /\ UNCHANGED <<engine, maxDepth, rootNodeId, nodes, nodeOrder, status,
                 finalResult, decision, calls, session,
                 pipe, svc>>

\* PHASE 2 up to the await: status aggregating, onUsage, the child
\* solutions are read and the aggregation request is issued
StartAggregation(n) ==
  /\ pc[n] = "join"
  /\ ~Fanning
  /\ JoinResolved(n)
  /\ nodes' = updateNodeInState(nodes, n, [status |-> "aggregating"])
  /\ calls' = [calls EXCEPT ![n].usage = @ + 1, ![n].aggregation = @ + 1,
                            ![n].childSolutions = childSolutions(nodes, n)]
  /\ pc' = [pc EXCEPT ![n] = "aggr"]
  /\ UNCHANGED <<engine, maxDepth, rootNodeId, nodeOrder, status, finalResult,
                 decision, session,
                 pipe, svc>>

\* mutant of AggregationCompletes: the completion time is not written
AggregationCompletes_untimed(n) ==
  /\ pc[n] = "aggr"
  /\ ~MicrotaskPending
  /\ \E r \in AggregationResponses :
       LET a == aggregateChildSolutions(engine, r)
       IN  /\ ~a.threw
           /\ nodes' = updateNodeInState(nodes, n,
                         [status |-> "complete",
                          result |-> [type |-> "aggregated",
                                      solution |-> a.aggregatedSolution]])
  /\ pc' = [pc EXCEPT ![n] = "resolved"]
  /\ calls' = FinishOrder(n)
  /\ UNCHANGED <<engine, maxDepth, rootNodeId, nodeOrder, status, finalResult,
                 decision, session,
                 pipe, svc>>

\* the aggregation returned: result {type: "aggregated"}, status complete
AggregationCompletes(n) ==
  /\ pc[n] = "aggr"
  /\ ~MicrotaskPending
  /\ \E r \in AggregationResponses :
       LET a == aggregateChildSolutions(engine, r)
       IN  /\ ~a.threw
           /\ nodes' = updateNodeInState(nodes, n,
                         [status |-> "complete",
                          result |-> [type |-> "aggregated",
                                      solution |-> a.aggregatedSolution],
                          completedAt |-> TRUE])
  /\ pc' = [pc EXCEPT ![n] = "resolved"]
  /\ calls' = FinishOrder(n)
  /\ UNCHANGED <<engine, maxDepth, rootNodeId, nodeOrder, status, finalResult,
                 decision, session,
                 pipe, svc>>

\* runToT: the aggregation request rejects outside any try; the node stays
\* `aggregating`
AggregationRejects(n) ==
  /\ pc[n] = "aggr"
  /\ ~MicrotaskPending
  /\ \E r \in AggregationResponses : aggregateChildSolutions(engine, r).threw
  /\ pc' = [pc EXCEPT ![n] = "rejected"]
  /\ UNCHANGED <<engine, maxDepth, rootNodeId, nodes, nodeOrder, status,
                 finalResult, decision, calls, session,
                 pipe, svc>>

\* ------------------------------------------ the followed pipeline run
treeVars == <<engine, maxDepth, rootNodeId, nodes, nodeOrder, status,
              finalResult, pc, decision, calls, session>>

\* the catch-all has received an exception and the call has ended with
\* outcome o
Caught(p, o, phase, cause) ==
  [p EXCEPT !.pc = "returned", !.outcome = o,
            !.raised = [phase |-> phase, cause |-> cause]]

\* a pipeline that is the whole reasoning pass is called
RunPipeline ==
  /\ pipe.caller = "flat"
  /\ pipe.pc = "idle"
  /\ pipe' = Started(pipe)
  /\ UNCHANGED <<treeVars, svc>>

\* the divergence response is delivered: parse, cap, state critiquing, one
\* trace step per strategy, and critiqueSingle called for every strategy
\* (onUsage and the request of each are issued here)
DivergenceResponds ==
  /\ pipe.pc = "divergence"
  /\ ~MicrotaskPending
  /\ \E r \in DivergenceResponses, o \in CatchOutcomes(pipe.variant) :
       LET parsed == parseStrategies(r)
           strategies == capStrategies(pipe.variant, parsed.items, pipe.isToTMode)
           k == Len(strategies)
       IN  pipe' =
             IF r.kind = "throw"
               THEN Caught(pipe, o, "divergence", "service")
             ELSE IF parsed.value = "null"
               THEN Caught(pipe, o, "divergence", "typeError")
             ELSE IF parsed.value = "object"
               THEN Caught([pipe EXCEPT !.state = FanOutState(pipe.variant)],
                           o, "divergence", "typeError")
             ELSE [pipe EXCEPT
                     !.pc = "critique",
                     !.state = FanOutState(pipe.variant),
                     !.parsed = Len(parsed.items),
                     !.strategies = strategies,
                     !.hypotheses = [i \in 1..k |->
                                       [id |-> strategies[i], critique |-> NoValue]],
                     !.fanout = [i \in 1..k |-> "inflight"],
                     !.usage = @ + k,
                     !.requests.critique = @ + k]
  /\ UNCHANGED <<treeVars, svc>>

\* the response to the fan-out request of strategy i is delivered, also
\* after the run has left the critique phase
CritiqueResponds(i) ==
  /\ pipe.fanout[i] = "inflight"
  /\ ~MicrotaskPending
  /\ \E r \in CritiqueResponses :
       pipe' = [pipe EXCEPT !.fanout[i] = critiqueSingle(r)]
  /\ UNCHANGED <<treeVars, svc>>

\* hypotheses with the critiques in `results` merged in, in the order of
\* the strategies
Critiqued(hs, results) ==
  [i \in 1..Len(hs) |-> [id |-> hs[i].id, critique |-> results[i]]]

\* state synthesizing, onUsage and the synthesis request
SynthesisRequested(p, hs) ==
  [p EXCEPT !.pc = "synthesis", !.state = "synthesizing", !.hypotheses = hs,
            !.usage = @ + 1, !.requests.synthesis = @ + 1]

\* Promise.all of the fan-out resolved. geminiService selects the winner
\* first: reduce() of an empty list without initial value is a TypeError
CritiqueJoin ==
  /\ pipe.pc = "critique"
  /\ FanOutResolved
  /\ pipe' =
       IF pipe.variant = "geminiService" /\ pipe.fanout = <<>>
         THEN Caught([pipe EXCEPT !.state = "selecting"], "caught",
                     "selection", "typeError")
         ELSE SynthesisRequested(pipe, Critiqued(pipe.hypotheses, pipe.fanout))
  /\ UNCHANGED <<treeVars, svc>>

\* the strategies of the batch that starts at `at`
BatchOf(p, at) ==
  {i \in DOMAIN p.strategies : at <= i /\ i < at + BATCH_SIZE}

\* one turn of the loop of Batch Recovery Mode up to its await: the steps of
\* the batch set running and verifySingle called for each of them
StartBatch(p, at) ==
  [p EXCEPT
     !.pc = "recovery",
     !.batchAt = at,
     !.batch = [i \in DOMAIN p.strategies |->
                  IF i \in BatchOf(p, at) THEN "inflight"
                  ELSE IF i < at THEN p.batch[i] ELSE "waiting"],
     !.usage = @ + Cardinality(BatchOf(p, at)),
     !.requests.critique = @ + Cardinality(BatchOf(p, at))]

\* mutant of CritiqueJoinRejects: geminiService too has no recovery
CritiqueJoinRejects_noRecovery ==
  /\ pipe.pc = "critique"
  /\ FanOutRejected
  /\ LET error == pipe.fanout[CHOOSE i \in DOMAIN pipe.fanout :
                                pipe.fanout[i] \in Rejections]
     IN  \E o \in CatchOutcomes(pipe.variant) :
           pipe' = Caught([pipe EXCEPT !.fanoutError = error], o,
                          "critique", CauseOf(error))
  /\ UNCHANGED <<treeVars, svc>>

\* Promise.all of the fan-out rejected. runSynthesis and
\* orchestrateDeepThink: the catch-all. geminiService: on a rate-limit
\* error, Batch Recovery Mode; any other error is thrown on
CritiqueJoinRejects ==
  /\ pipe.pc = "critique"
  /\ FanOutRejected
  /\ LET error == pipe.fanout[CHOOSE i \in DOMAIN pipe.fanout :
                                pipe.fanout[i] \in Rejections]
     IN  IF pipe.variant = "geminiService" /\ isRateLimit(error)
           THEN pipe' = StartBatch([pipe EXCEPT !.fanoutError = error,
                                                !.recovery = TRUE], 1)
           ELSE \E o \in CatchOutcomes(pipe.variant) :
                  pipe' = Caught([pipe EXCEPT !.fanoutError = error], o,
                                 "critique", CauseOf(error))
  /\ UNCHANGED <<treeVars, svc>>

\* the response to the batch request of strategy i is delivered
BatchResponds(i) ==
  /\ pipe.batch[i] = "inflight"
  /\ ~MicrotaskPending
  /\ \E r \in CritiqueResponses :
       pipe' = [pipe EXCEPT !.batch[i] = critiqueSingle(r)]
  /\ UNCHANGED <<treeVars, svc>>

\* verifiedHypotheses after the current batch
Verified(p) ==
  [i \in 1..Min(p.batchAt + BATCH_SIZE - 1, Len(p.strategies)) |->
     [id |-> p.strategies[i], critique |-> p.batch[i]]]

\* Promise.all of the current batch resolved: results pushed, hypotheses
\* updated; then the cooldown if strategies are left, else phase 3
BatchJoin ==
  /\ pipe.pc = "recovery"
  /\ BatchResolved
  /\ pipe' =
       IF pipe.batchAt + BATCH_SIZE <= Len(pipe.strategies)
         THEN [pipe EXCEPT !.pc = "cooldown", !.hypotheses = Verified(pipe)]
         ELSE SynthesisRequested(pipe, Verified(pipe))
  /\ UNCHANGED <<treeVars, svc>>

\* a request of the current batch rejected: the exception leaves the
\* handler of the fan-out and reaches the catch-all
BatchJoinRejects ==
  /\ pipe.pc = "recovery"
  /\ BatchRejected
  /\ LET error == pipe.batch[CHOOSE i \in CurrentBatch :
                               pipe.batch[i] \in Rejections]
     IN  pipe' = Caught(pipe, "caught", "recovery", CauseOf(error))
  /\ UNCHANGED <<treeVars, svc>>

\* setTimeout(resolve, 1500) fired: the next turn of the loop
CooldownElapses ==
  /\ pipe.pc = "cooldown"
  /\ ~MicrotaskPending
  /\ pipe' = StartBatch(pipe, pipe.batchAt + BATCH_SIZE)
  /\ UNCHANGED <<treeVars, svc>>

\* the synthesis response is delivered: the blueprint parsed, the trace
\* step written, updateState({masterBlueprint}) and the return
SynthesisResponds ==
  /\ pipe.pc = "synthesis"
  /\ ~MicrotaskPending
  /\ \E r \in SynthesisResponses, o \in CatchOutcomes(pipe.variant) :
       pipe' =
         IF SynthesisThrows(pipe.variant, r)
           THEN Caught(pipe, o, "synthesis",
                       IF r = "throw" THEN "service" ELSE "typeError")
         ELSE IF pipe.variant = "geminiService"
           THEN [pipe EXCEPT !.pc = "returned", !.outcome = "plan"]
         ELSE [pipe EXCEPT !.pc = "returned", !.outcome = "blueprint",
                           !.masterBlueprint = parseBlueprint(r)]
  /\ UNCHANGED <<treeVars, svc>>

\* ------------------------------------------------------ runToT / executeToT
\* mutant of FinalPrompt: the failure branch of runToT hands back the query
\* itself, as executeToT's does
FinalPrompt_bareQuery(e, ok, solution) ==
  IF ok
    THEN IF e = "runToT" THEN <<"prompts.final(query, blueprint)", solution>>
         ELSE <<"template", solution>>
  ELSE <<"query">>

\* the prompt handed back: runToT uses prompts.final, executeToT its own
\* template on success and the bare query on failure
FinalPrompt(e, ok, solution) ==
  IF e = "runToT"
    THEN IF ok THEN <<"prompts.final(query, blueprint)", solution>>
         ELSE <<"prompts.final(query)">>
  ELSE IF ok THEN <<"template", solution>>
       ELSE <<"query">>

\* mutant of SessionCompletes: no fallback to the query when the root has
\* no result
SessionCompletes_noFallback ==
  /\ session.pc = "running"
  /\ pc[rootNodeId] = "resolved"
  /\ ~Fanning
  /\ LET finalSolution == getNodeSolution(nodes[rootNodeId])
     IN  /\ finalResult' = finalSolution
         /\ session' = [session EXCEPT
                          !.pc = "returned",
                          !.prompt = FinalPrompt(engine, TRUE, finalSolution)]
  /\ status' = "complete"
  /\ UNCHANGED <<engine, maxDepth, rootNodeId, nodes, nodeOrder, pc, decision,
                 calls,
                 pipe, svc>>

\* await processNode(root) returned
SessionCompletes ==
  /\ session.pc = "running"
  /\ pc[rootNodeId] = "resolved"
  /\ ~Fanning
  /\ LET rootResult == nodes[rootNodeId]
         finalSolution == IF rootResult.result # NoResult
                            THEN getNodeSolution(rootResult) ELSE "query"
     IN  /\ finalResult' = finalSolution
         /\ session' = [session EXCEPT
                          !.pc = "returned",
                          !.prompt = FinalPrompt(engine, TRUE, finalSolution)]
  /\ status' = "complete"
  /\ UNCHANGED <<engine, maxDepth, rootNodeId, nodes, nodeOrder, pc, decision,
                 calls,
                 pipe, svc>>

\* the session's catch: runToT evaluates prompts.final(query) in it, which
\* is caller-supplied code called without a blueprint and may throw;
\* executeToT returns the query itself
SessionCatchOutcomes(e) ==
  IF e = "runToT" THEN {"caught", "throw"} ELSE {"caught"}

\* await processNode(root) threw: the state is marked failed and emitted,
\* then the fallback prompt is built and returned; an exception of that
\* last step leaves the session ("thrown")
SessionFails ==
  /\ session.pc = "running"
  /\ pc[rootNodeId] = "rejected"
  /\ ~Fanning
  /\ status' = "failed"
  /\ \E o \in SessionCatchOutcomes(engine) :
       session' = IF o = "caught"
                    THEN [session EXCEPT
                            !.pc = "returned",
                            !.prompt = FinalPrompt(engine, FALSE, "")]
                    ELSE [session EXCEPT !.pc = "thrown"]
  /\ UNCHANGED <<engine, maxDepth, rootNodeId, nodes, nodeOrder, finalResult,
                 pc, decision, calls,
                 pipe, svc>>

Next ==
  \/ \E n \in NodeIds : BeginNode(n)
  \/ \E n \in NodeIds : DecompositionRejects(n)
  \/ \E n \in NodeIds : CreateChildren(n)
  \/ \E n \in NodeIds : ExecuteLeaf(n)
  \/ \E n \in NodeIds : LeafCompletes(n)
  \/ \E n \in NodeIds : LeafFails(n)
  \/ \E n \in NodeIds : JoinRejects(n)
  \/ \E n \in NodeIds : StartAggregation(n)
  \/ \E n \in NodeIds : AggregationCompletes(n)
  \/ \E n \in NodeIds : AggregationRejects(n)
  \/ SessionCompletes
  \/ SessionFails

Spec == Init /\ [][Next]_vars

\* ------------------------------------------------- one pipeline run
\* A session whose root is run as a leaf, with the leaf's pipeline followed
\* step by step, or a pipeline run that is the whole reasoning pass (no
\* Tree State then).
PipelineInit ==
  \/ /\ engine \in Engines
     /\ maxDepth \in 1..MaxDepthBound
     /\ rootNodeId = 1
     /\ nodes = (1 :> createNode(0, 0))
     /\ nodeOrder = <<1>>
     /\ status = "running"
     /\ finalResult = NoValue
     /\ pc = (1 :> "idle")
     /\ decision = NoDecision
     /\ calls = (1 :> NoCalls)
     /\ session \in StartedSessions(engine)
     /\ pipe = [NoPipe EXCEPT !.caller = "leaf", !.node = 1,
                              !.variant = LeafVariant(engine),
                              !.isToTMode = (engine = "runToT")]
     /\ svc = NoSvc
  \/ /\ engine = NoValue
     /\ maxDepth = 0
     /\ rootNodeId = 0
     /\ nodes = << >>
     /\ nodeOrder = << >>
     /\ status = NoValue
     /\ finalResult = NoValue
     /\ pc = << >>
     /\ decision = NoDecision
     /\ calls = << >>
     /\ session = NoSession
     /\ \E v \in Variants :
          pipe = [NoPipe EXCEPT !.caller = "flat", !.variant = v]
     /\ svc = NoSvc

PipelineNext ==
  \/ \E n \in NodeIds : BeginNode(n)
  \/ \E n \in NodeIds : DecompositionRejects(n)
  \/ \E n \in NodeIds : ExecuteLeaf(n)
  \/ RunPipeline
  \/ DivergenceResponds
  \/ \E i \in DOMAIN pipe.fanout : CritiqueResponds(i)
  \/ CritiqueJoin
  \/ CritiqueJoinRejects
  \/ \E i \in DOMAIN pipe.batch : BatchResponds(i)
  \/ BatchJoin
  \/ BatchJoinRejects
  \/ CooldownElapses
  \/ SynthesisResponds
  \/ \E n \in NodeIds : LeafCompletes(n)
  \/ \E n \in NodeIds : LeafFails(n)
  \/ SessionCompletes
  \/ SessionFails

PipelineSpec == PipelineInit /\ [][PipelineNext]_vars

\* ------------------------------------------------------------ the Aggregator
\* A string is modelled as the sequence of its pieces: "" is << >>, a child's
\* solution text is one piece, a template literal is the concatenation of its
\* literals and interpolated values.
MaxChildren == 3

Text(x) == IF x = "" THEN << >> ELSE <<x>>

\* `${i + 1}`
Digits == <<"1", "2", "3", "4", "5", "6">>

\* Array.prototype.join over texts
RECURSIVE Join(_, _)
Join(texts, sep) ==
  IF texts = << >> THEN << >>
  ELSE IF Len(texts) = 1 THEN texts[1]
  ELSE texts[1] \o sep \o Join(Tail(texts), sep)

ChildQueries == {"q1", "q2"}
ChildSolutionTexts == {"", "X", "Y"}

\* ChildSolution[] of length k
ChildSolutionInputs(k) ==
  [1..k -> [query : ChildQueries, solution : ChildSolutionTexts]]

\* aggregator createFallbackAggregation(children)
createFallbackAggregation(children) ==
  [aggregatedSolution |->
     Join([i \in 1..Len(children) |->
             <<"## Part ", Digits[i], ": ", children[i].query, "\n\n">>
               \o Text(children[i].solution)],
          <<"\n\n---\n\n">>),
   childContributions |->
     [i \in 1..Len(children) |->
        <<"Part ", Digits[i], ": ", children[i].query>>]]

\* mutant of aggregateWithoutRequest: a single child too goes to the model
aggregateWithoutRequest_never(children) == Len(children) = 0

\* the aggregator returns before any request: no child, or a single child
aggregateWithoutRequest(children) == Len(children) <= 1

\* what the aggregator returns without a request
aggregateDirect(children) ==
  IF Len(children) = 0
    THEN [aggregatedSolution |-> <<"No child solutions to aggregate.">>,
          childContributions |-> << >>]
    ELSE [aggregatedSolution |-> Text(children[1].solution),
          childContributions |->
            << <<"Directly used solution from: ", children[1].query>> >>]

\* An aggregation response as the aggregator reads it: AggregationResponses,
\* and also the JSON value null, an aggregatedSolution that is no string,
\* and a solution without a childContributions array
AggregatorResponses ==
  AggregationResponses \cup {"null", "nonstring", "solutionOnly"}

\* aggregator aggregateChildSolutions after its request: everything but a
\* response holding a string aggregatedSolution ends in the fallback
aggregateParsed(children, r) ==
  IF r = "solution"
    THEN [aggregatedSolution |-> <<"aggregated">>,
          childContributions |-> << <<"contribution">> >>]
  ELSE IF r = "solutionOnly"
    THEN [aggregatedSolution |-> <<"aggregated">>,
          childContributions |->
            [i \in 1..Len(children) |->
               <<"Child ", Digits[i], " contribution">>]]
  ELSE createFallbackAggregation(children)

\* tot.backbone.ts aggregateChildSolutions after its request
backboneParsed(r) ==
  [aggregatedSolution |-> Text(backbone_aggregateChildSolutions(r).aggregatedSolution),
   childContributions |->
     IF r = "solution" THEN << <<"contribution">> >> ELSE << >>]

NoAggregation == [aggregatedSolution |-> << >>, childContributions |-> << >>]

\* no tree session and no pipeline run is under way
NoTree ==
  /\ engine = NoValue
  /\ maxDepth = 0
  /\ rootNodeId = 0
  /\ nodes = << >>
  /\ nodeOrder = << >>
  /\ status = NoValue
  /\ finalResult = NoValue
  /\ pc = << >>
  /\ decision = NoDecision
  /\ calls = << >>
  /\ session = NoSession
  /\ pipe = NoPipe

\* aggregateChildSolutions is called: by executeToT the aggregator, with any
\* list of child solutions; by runToT its own function, for a node that was
\* decomposed
AggregatorInit ==
  /\ NoTree
  /\ \E fn \in {"aggregator", "backbone"} :
       \E k \in (IF fn = "aggregator" THEN 0 ELSE 2)..MaxChildren :
         \E children \in ChildSolutionInputs(k) :
           svc = [fn |-> fn, pc |-> "called", children |-> children,
                  requests |-> 0, response |-> NoValue,
                  result |-> NoAggregation]

\* the aggregator returns without a request
AggregateDirectly ==
  /\ svc.fn = "aggregator"
  /\ svc.pc = "called"
  /\ aggregateWithoutRequest(svc.children)
  /\ svc' = [svc EXCEPT !.pc = "returned",
                        !.result = aggregateDirect(svc.children)]
  /\ UNCHANGED <<treeVars, pipe>>

\* the aggregation request is issued
AggregateRequests ==
  /\ svc.fn \in {"aggregator", "backbone"}
  /\ svc.pc = "called"
  /\ svc.fn = "aggregator" => ~aggregateWithoutRequest(svc.children)
  /\ svc' = [svc EXCEPT !.pc = "awaiting", !.requests = @ + 1]
  /\ UNCHANGED <<treeVars, pipe>>

\* the aggregation response is delivered
AggregationResponds ==
  /\ svc.fn \in {"aggregator", "backbone"}
  /\ svc.pc = "awaiting"
  /\ \E r \in (IF svc.fn = "aggregator" THEN AggregatorResponses
               ELSE AggregationResponses) :
       svc' =
         IF svc.fn = "aggregator"
           THEN [svc EXCEPT !.pc = "returned", !.response = r,
                            !.result = aggregateParsed(svc.children, r)]
         ELSE IF backbone_aggregateChildSolutions(r).threw
           THEN [svc EXCEPT !.pc = "rejected", !.response = r]
         ELSE [svc EXCEPT !.pc = "returned", !.response = r,
                          !.result = backboneParsed(r)]
  /\ UNCHANGED <<treeVars, pipe>>

AggregatorNext ==
  \/ AggregateDirectly
  \/ AggregateRequests
  \/ AggregationResponds

AggregatorSpec == AggregatorInit /\ [][AggregatorNext]_vars

\* ------------------------------------------------------- the Engine Selector
\* routeToOrchestrator exists twice: in orchestrators/registry.ts, which
\* classifies the persona first, and in totPrompts.ts, which decides the
\* backbone first
RouterVersions == {"registry", "totPrompts"}

\* the ids of the array `orchestrators`
RegisteredIds(version) ==
  IF version = "registry"
    THEN {"direct", "consumer", "developer", "architect", "social_writer",
          "general"}
    ELSE {"direct", "consumer", "developer", "architect", "general"}

\* query.length, one value of each range getDefaultClassification tells apart
QueryLengths == {10, 100, 400}

\* A response to the persona classification request: the request rejects,
\* no text, text that is not JSON, the JSON value null, an object without
\* recommended or scores, or an object recommending an id, registered or not
ClassificationResponses ==
  [kind : {"throw", "empty", "unparsable", "null", "invalid"},
   recommended : {NoValue}]
    \cup [kind : {"valid"},
          recommended : {"direct", "developer", "social_writer", "general",
                         "tot"}]

\* classifier getDefaultClassification(query, orchestrators): "tot" and
\* "synthesis" are ids of no registered orchestrator
getDefaultClassification(length, ids) ==
  IF length < 50 /\ "direct" \in ids THEN "direct"
  ELSE IF length > 300 /\ "tot" \in ids THEN "tot"
  ELSE "synthesis"

\* classifier classifyQuery(query, orchestrators): .recommended
classifyQuery(r, length, ids) ==
  IF r.kind = "valid" THEN r.recommended
  ELSE getDefaultClassification(length, ids)

\* A response to the ToT-necessity request: as above, or an object with
\* needsToT true, false or absent and a complexity or none
NecessityResponses ==
  [kind : {"throw", "empty", "unparsable", "null"},
   needsToT : {NoValue}, complexity : {NoValue}]
    \cup [kind : {"json"},
          needsToT : {"true", "false", NoValue},
          complexity : {"simple", "moderate", "complex", NoValue}]

\* the necessity classification failed: the catch of classifyNeedsToT ran
NecessityFailed(r) == r.kind \in {"throw", "unparsable", "null"}

\* mutant of classifyNeedsToT: a failed classification asks for the tree
classifyNeedsToT_failsDeep(r) ==
  IF NecessityFailed(r) THEN [needsToT |-> TRUE, complexity |-> "moderate"]
  ELSE [needsToT |-> r.needsToT = "true",
        complexity |-> IF r.kind = "json" /\ r.complexity # NoValue
                         THEN r.complexity ELSE "moderate"]

\* classifier classifyNeedsToT(query)
classifyNeedsToT(r) ==
  IF NecessityFailed(r) THEN [needsToT |-> FALSE, complexity |-> "moderate"]
  ELSE [needsToT |-> r.needsToT = "true",
        complexity |-> IF r.kind = "json" /\ r.complexity # NoValue
                         THEN r.complexity ELSE "moderate"]

\* mutant of selectBackbone: a need of simple complexity is not followed
selectBackbone_gated(totDecision) ==
  IF totDecision.needsToT /\ totDecision.complexity # "simple"
    THEN "ToTBackbone" ELSE "SynthesisBackbone"

\* useToT = totDecision.needsToT; backbone = useToT ? ToTBackbone : SynthesisBackbone
selectBackbone(totDecision) ==
  IF totDecision.needsToT THEN "ToTBackbone" ELSE "SynthesisBackbone"

\* the backbone GeneralOrchestrator gets when the recommended id is not
\* registered: registry.ts passes SynthesisBackbone, totPrompts.ts the
\* backbone it has decided on
unknownBackbone(version, forced, backbone) ==
  IF version = "registry" THEN "SynthesisBackbone" ELSE backbone

NoDecisionYet == [needsToT |-> FALSE, complexity |-> NoValue]

RouterInit ==
  /\ NoTree
  /\ \E version \in RouterVersions, forced \in BOOLEAN, length \in QueryLengths :
       svc = [fn |-> "routeToOrchestrator", pc |-> "called",
              version |-> version, forceDeepMode |-> forced,
              length |-> length,
              classification |-> NoValue, recommended |-> NoValue,
              necessity |-> NoValue, totDecision |-> NoDecisionYet,
              backbone |-> NoValue, orchestrator |-> NoValue,
              usage |-> 0,
              requests |-> [classification |-> 0, necessity |-> 0]]

\* the persona classification request is issued
Classifying(s) ==
  [s EXCEPT !.pc = "classifying", !.requests.classification = @ + 1]

\* onUsage and the ToT-necessity request
Deciding(s) ==
  [s EXCEPT !.pc = "deciding", !.usage = @ + 1, !.requests.necessity = @ + 1]

\* orchestrator.execute(query, context, backbone)
Executing(s, orchestrator, backbone) ==
  [s EXCEPT !.pc = "executing", !.orchestrator = orchestrator,
            !.backbone = backbone]

\* routeToOrchestrator up to its first await
RouteCalled ==
  /\ svc.fn = "routeToOrchestrator"
  /\ svc.pc = "called"
  /\ svc' =
       IF svc.version = "registry" THEN Classifying(svc)
       ELSE IF svc.forceDeepMode
         THEN Classifying([svc EXCEPT !.backbone = "ToTBackbone"])
       ELSE Deciding(svc)
  /\ UNCHANGED <<treeVars, pipe>>

\* classifyQuery returned: onUsage, the lookup of the orchestrator, and on
\* to the backbone decision or to the execution
ClassificationResponds ==
  /\ svc.fn = "routeToOrchestrator"
  /\ svc.pc = "classifying"
  /\ \E r \in ClassificationResponses :
       LET ids == RegisteredIds(svc.version)
           recommended == classifyQuery(r, svc.length, ids)
           s == [svc EXCEPT !.classification = r.kind,
                            !.recommended = recommended,
                            !.usage = @ + 1]
       IN  svc' =
             IF recommended \notin ids
               THEN Executing(s, "general",
                              unknownBackbone(svc.version, svc.forceDeepMode,
                                              svc.backbone))
             ELSE IF svc.version = "totPrompts"
               THEN Executing(s, recommended, svc.backbone)
             ELSE IF svc.forceDeepMode
               THEN Executing(s, recommended, "ToTBackbone")
             ELSE Deciding([s EXCEPT !.orchestrator = recommended])
  /\ UNCHANGED <<treeVars, pipe>>

\* classifyNeedsToT returned: the backbone is selected
NecessityResponds ==
  /\ svc.fn = "routeToOrchestrator"
  /\ svc.pc = "deciding"
  /\ \E r \in NecessityResponses :
       LET totDecision == classifyNeedsToT(r)
           s == [svc EXCEPT !.necessity = r, !.totDecision = totDecision,
                            !.backbone = selectBackbone(totDecision)]
       IN  svc' =
             IF svc.version = "registry"
               THEN Executing(s, svc.orchestrator, s.backbone)
               ELSE Classifying(s)
  /\ UNCHANGED <<treeVars, pipe>>

RouterNext ==
  \/ RouteCalled
  \/ ClassificationResponds
  \/ NecessityResponds

RouterSpec == RouterInit /\ [][RouterNext]_vars

\* ------------------------------------------------- snapshots and observers
\* The Tree State as objects: `state` is a variable holding a reference, the
\* observer is handed that reference, and a snapshot is what the reference
\* leads to. heap[r] is the object at reference r: a state object, whose
\* nodes map id -> reference of a node object, or a node object.
MaxSnapshots == 4

\* the value reachable from state reference r
SnapshotValue(heap, r) ==
  [nodes |-> [id \in DOMAIN heap[r].nodes |-> heap[heap[r].nodes[id]]],
   nodeOrder |-> heap[r].nodeOrder,
   status |-> heap[r].status]

NodeObject(nodeStatus, children) ==
  [kind |-> "node", status |-> nodeStatus, children |-> children]

\* the updates processNode applies to a node
NodeUpdates == {"decomposing", "complete"}

\* mutant of heapUpdateNode: Object.assign(state.nodes[nodeId], update), the
\* node object is changed where it is
heapUpdateNode_inPlace(s, nodeId, nodeStatus) ==
  LET ref == s.heap[s.state].nodes[nodeId]
  IN  [s EXCEPT !.heap[ref].status = nodeStatus]

\* state = updateNodeInState(state, nodeId, update): a new node object
\* {...state.nodes[nodeId], ...update} in a new nodes map in a new state
\* object; `state` then refers to the new object
heapUpdateNode(s, nodeId, nodeStatus) ==
  LET old == s.heap[s.state]
      nodeRef == Len(s.heap) + 1
      stateRef == Len(s.heap) + 2
      node == [s.heap[old.nodes[nodeId]] EXCEPT !.status = nodeStatus]
  IN  [s EXCEPT
         !.heap = s.heap \o <<node,
                               [old EXCEPT !.nodes[nodeId] = nodeRef]>>,
         !.state = stateRef]

\* state = addChildrenToState(state, parentId, children) for two children
\* made by createNode: newNodes = {...state.nodes} gets the child objects
\* and a new parent object {...parent, children: childIds}; nodeOrder is a
\* new array
heapAddChildren(s, parentId) ==
  LET old == s.heap[s.state]
      n == Len(old.nodeOrder)
      childIds == <<n + 1, n + 2>>
      base == Len(s.heap)
      parent == [s.heap[old.nodes[parentId]] EXCEPT !.children = childIds]
      newNodes == [id \in DOMAIN old.nodes \cup {n + 1, n + 2} |->
                     IF id = n + 1 THEN base + 1
                     ELSE IF id = n + 2 THEN base + 2
                     ELSE IF id = parentId THEN base + 3
                     ELSE old.nodes[id]]
  IN  [s EXCEPT
         !.heap = s.heap \o
                    <<NodeObject("pending", << >>),
                      NodeObject("pending", << >>),
                      parent,
                      [old EXCEPT !.nodes = newNodes,
                                  !.nodeOrder = old.nodeOrder \o childIds]>>,
         !.state = base + 4]

\* state = {...state, status}
heapSetStatus(s, sessionStatus) ==
  [s EXCEPT !.heap = s.heap \o <<[s.heap[s.state] EXCEPT !.status = sessionStatus]>>,
            !.state = Len(s.heap) + 1]

\* context.onToTUpdate?.(state): the observer keeps the reference, and what
\* it saw is recorded with it
Emit(s) ==
  [s EXCEPT !.emitted = Append(@, [ref |-> s.state,
                                   value |-> SnapshotValue(s.heap, s.state)])]

\* runToT up to the call of processNode: the root node, the initial state
\* and its first snapshot
ObserverInit ==
  /\ NoTree
  /\ svc = Emit([fn |-> "observer", pc |-> "running",
                 heap |-> <<NodeObject("pending", << >>),
                            [kind |-> "state", nodes |-> (1 :> 1),
                             nodeOrder |-> <<1>>, status |-> "running"]>>,
                 state |-> 2,
                 emitted |-> << >>])

Observing ==
  /\ svc.fn = "observer"
  /\ svc.pc = "running"
  /\ Len(svc.emitted) < MaxSnapshots

\* a status update of a node and its snapshot
ObservedUpdate(nodeId, nodeStatus) ==
  /\ Observing
  /\ svc' = Emit(heapUpdateNode(svc, nodeId, nodeStatus))
  /\ UNCHANGED <<treeVars, pipe>>

\* the creation of child nodes: addChildrenToState, the update of the
\* parent's title, and one snapshot
ObservedChildren(parentId) ==
  /\ Observing
  /\ svc.heap[svc.heap[svc.state].nodes[parentId]].children = << >>
  /\ Len(svc.heap[svc.state].nodeOrder) + 2 <= MaxNodes
  /\ svc' = Emit(heapUpdateNode(heapAddChildren(svc, parentId), parentId,
                                svc.heap[svc.heap[svc.state].nodes[parentId]].status))
  /\ UNCHANGED <<treeVars, pipe>>

\* the end of the session: status complete or failed and the last snapshot
ObservedEnd(sessionStatus) ==
  /\ svc.fn = "observer"
  /\ svc.pc = "running"
  /\ svc' = [Emit(heapSetStatus(svc, sessionStatus)) EXCEPT !.pc = "returned"]
  /\ UNCHANGED <<treeVars, pipe>>

ObserverNext ==
  \/ \E nodeId \in DOMAIN svc.heap[svc.state].nodes, nodeStatus \in NodeUpdates :
       ObservedUpdate(nodeId, nodeStatus)
  \/ \E parentId \in DOMAIN svc.heap[svc.state].nodes : ObservedChildren(parentId)
  \/ \E sessionStatus \in {"complete", "failed"} : ObservedEnd(sessionStatus)

ObserverSpec == ObserverInit /\ [][ObserverNext]_vars




\* ===================================================================== claims
HasChildren(n) == nodes[n].children # <<>>

\* the node the last decision was returned to, once there is one
Decided == decision.node # 0

\* C1 Depth monotonicity: the root has depth 0, every other node has its
\* parent's depth + 1, and no node is deeper than maxDepth.
C1_DepthMonotonic ==
  \A n \in NodeIds :
    /\ n = rootNodeId => nodes[n].depth = 0 /\ nodes[n].parentId = 0
    /\ n # rootNodeId =>
         /\ nodes[n].parentId \in NodeIds
         /\ nodes[n].depth = nodes[nodes[n].parentId].depth + 1
    /\ nodes[n].depth <= maxDepth

\* a tree that reaches the depth limit itself, with a grandchild in it
C1_Witness ==
  /\ \E n \in NodeIds : nodes[n].depth = maxDepth
  /\ \E n \in NodeIds : nodes[n].depth = 2

C3_LeafDecomposeExclusive ==
  \A n \in NodeIds :
    /\ Len(nodes[n].children) # 1
    /\ nodes[n].result # NoResult =>
         /\ nodes[n].result.type = "leaf" <=> Len(nodes[n].children) = 0
         /\ nodes[n].result.type = "aggregated" <=> Len(nodes[n].children) >= 2

\* an aggregated parent next to its leaf children
C3_Witness ==
  \E n \in NodeIds :
    /\ nodes[n].result.type = "aggregated"
    /\ \E c \in Children(n) : nodes[c].result.type = "leaf"

C5_AnalyzerDepthRule ==
  /\ \A n \in NodeIds :
       nodes[n].depth >= maxDepth => calls[n].decomposition = 0
  /\ Decided /\ nodes[decision.node].depth >= maxDepth =>
       /\ ~decision.shouldDecompose
       /\ decision.subProblems = 0
       /\ ~decision.threw

\* the analyzer has answered for a node at the depth limit
C5_Witness ==
  /\ Decided
  /\ nodes[decision.node].depth >= maxDepth
  /\ calls[decision.node].analyses = 1

\* C6 Scenario maxDepth = 1, as claimed: the root's analysis issues no
\* completion request, the decision is shouldDecompose = false, no child is
\* created and the root is never aggregating.
C6_NoRequestAtMaxDepthOne ==
  maxDepth = 1 =>
    /\ calls[rootNodeId].decomposition = 0
    /\ Decided /\ decision.node = rootNodeId => ~decision.shouldDecompose
    /\ NodeIds = {rootNodeId}
    /\ nodes[rootNodeId].status # "aggregating"

\* C6 as amended: with maxDepth = 1 the root's analysis does issue its one
\* completion request in both engines. runToT ignores the answer: it never
\* creates a child and the root runs as a leaf. executeToT may decompose
\* the root; its analyzer short-circuits for the children, at depth 1,
\* which get no request and stay childless.
C6_MaxDepthOne ==
  maxDepth = 1 =>
    /\ nodes[rootNodeId].status # "pending" =>
         calls[rootNodeId].decomposition = 1
    /\ engine = "runToT" =>
         /\ NodeIds = {rootNodeId}
         /\ nodes[rootNodeId].status # "aggregating"
         /\ nodes[rootNodeId].result.type \in {NoValue, "leaf"}
    /\ engine = "executeToT" =>
         \A n \in NodeIds \ {rootNodeId} :
           /\ nodes[n].depth = 1
           /\ calls[n].decomposition = 0
           /\ ~HasChildren(n)
           /\ nodes[n].status # "aggregating"

\* runToT, maxDepth = 1: the answer was "decompose" with enough
\* sub-problems, and the root executes as a leaf all the same
C6_Witness ==
  /\ maxDepth = 1
  /\ engine = "runToT"
  /\ decision.node = rootNodeId
  /\ decision.shouldDecompose
  /\ decision.subProblems >= 2
  /\ nodes[rootNodeId].status = "executing"

\* C7 Admissibility, as claimed: children only below depth maxDepth - 1,
\* only on shouldDecompose = true with 2 or more sub-problems; every node
\* at depth maxDepth - 1 is a leaf.
C7_Admissibility ==
  /\ \A n \in NodeIds :
       /\ HasChildren(n) => nodes[n].depth < maxDepth - 1
       /\ nodes[n].depth = maxDepth - 1 => ~HasChildren(n)
  /\ Decided /\ HasChildren(decision.node) =>
       decision.shouldDecompose /\ decision.subProblems >= 2

\* the depth below which an engine lets a node have children
Ceiling == IF engine = "runToT" THEN maxDepth - 1 ELSE maxDepth

\* C7 as amended: children are created only if the node's depth is below
\* the engine's ceiling (maxDepth - 1 in runToT, maxDepth in executeToT,
\* where the analyzer's depth rule is the only depth test), the analyzer
\* returned shouldDecompose = true and there are 2 or more sub-problems;
\* a decision that fails one of these makes the node a leaf; every node at
\* the ceiling is a leaf.
C7_AdmissibilityPerEngine ==
  /\ \A n \in NodeIds :
       /\ HasChildren(n) => nodes[n].depth < Ceiling
       /\ nodes[n].depth >= Ceiling =>
            ~HasChildren(n) /\ nodes[n].status # "aggregating"
  /\ Decided =>
       LET n == decision.node
           admitted == /\ nodes[n].depth < Ceiling
                       /\ decision.shouldDecompose
                       /\ decision.subProblems >= 2
       IN  /\ HasChildren(n) => admitted
           /\ ~admitted /\ ~decision.threw =>
                /\ ~HasChildren(n)
                /\ nodes[n].status \in {"executing", "complete", "failed"}

\* runToT: a child at depth maxDepth - 1 got "decompose" with enough
\* sub-problems and executes as a leaf
C7_Witness ==
  /\ engine = "runToT"
  /\ Decided
  /\ nodes[decision.node].depth = maxDepth - 1
  /\ nodes[decision.node].depth >= 1
  /\ decision.shouldDecompose
  /\ decision.subProblems >= 2
  /\ nodes[decision.node].status = "executing"

\* C8 Fan-out/join ordering: a node has children only once its decision
\* has been received, and it is aggregating (or complete with children)
\* only when every child's task has ended with the child in a terminal
\* status.
C8_FanOutJoinOrdering ==
  \A n \in NodeIds :
    /\ HasChildren(n) =>
         /\ pc[n] \notin {"idle", "decomp"}
         /\ decision.node \in NodeIds
    /\ pc[n] \in {"idle", "decomp", "leaf"} => ~HasChildren(n)
    /\ \/ nodes[n].status = "aggregating"
       \/ HasChildren(n) /\ nodes[n].status = "complete"
       => \A c \in Children(n) :
            /\ nodes[c].status \in TerminalStatuses
            /\ pc[c] = "resolved"

\* a parent of three aggregates
C8_Witness ==
  \E n \in NodeIds :
    /\ nodes[n].status = "aggregating"
    /\ Len(nodes[n].children) = 3

\* the status steps of the per-node state machine
StatusSteps ==
  { <<"pending", "decomposing">>,
    <<"decomposing", "executing">>, <<"decomposing", "aggregating">>,
    <<"executing", "complete">>, <<"aggregating", "complete">>,
    <<"decomposing", "failed">>, <<"executing", "failed">>,
    <<"aggregating", "failed">> }

\* C9 Per-node state machine: a node's status changes only by a step of
\* StatusSteps, decomposing -> executing only without children and
\* decomposing -> aggregating only with children; a new node is pending;
\* complete and failed are never left.
C9_NodeStateMachine ==
  [][ /\ \A n \in NodeIds :
           LET a == nodes[n].status
               b == nodes'[n].status
           IN  a # b =>
                 /\ <<a, b>> \in StatusSteps
                 /\ b = "executing" => nodes'[n].children = <<>>
                 /\ b = "aggregating" => nodes'[n].children # <<>>
      /\ \A n \in (DOMAIN nodes') \ NodeIds : nodes'[n].status = "pending"
    ]_vars

\* a failed leaf and a complete parent in one tree
C9_Witness ==
  /\ \E n \in NodeIds : nodes[n].status = "failed"
  /\ \E n \in NodeIds : HasChildren(n) /\ nodes[n].status = "complete"

RequestThrew(n) ==
  \/ decision.node = n /\ decision.threw
  \/ pc[n] = "rejected" /\ nodes[n].status = "aggregating"

\* C11 Fatal-to-node containment, as claimed: when the completion request
\* of a non-root node's decomposing or aggregating phase throws, the
\* exception is caught at that node (its task ends normally), the node is
\* failed with the message recorded, and the Tree State does not become
\* failed.
C11_FatalToNodeContainment ==
  \A n \in NodeIds \ {rootNodeId} :
    RequestThrew(n) =>
      /\ pc[n] = "resolved"
      /\ nodes[n].status = "failed"
      /\ nodes[n].error # NoValue
      /\ status # "failed"

\* C13 Session-level failure, as claimed: once the session has failed, the
\* prompt returned is the original query itself.
C13_SessionFailureBareQuery ==
  status = "failed" /\ session.pc = "returned" => session.prompt = <<"query">>

\* C13 as amended: an exception escapes the processing of the root node
\* exactly in the sessions whose overall status becomes failed; finalResult
\* stays unset, and what runToT hands back is prompts.final(query), the
\* persona's final template around the query without a blueprint, not the
\* bare query (when that call throws, nothing is handed back). Only
\* executeToT's handler returns the bare query, and no exception of its
\* decomposer, aggregator or pipeline reaches it.
C13_SessionFailure ==
  /\ session.pc # "running" =>
       /\ pc[rootNodeId] = "rejected" <=> status = "failed"
       /\ pc[rootNodeId] = "resolved" <=> status = "complete"
  /\ status = "failed" =>
       /\ session.pc \in {"returned", "thrown"}
       /\ finalResult = NoValue
       /\ engine = "runToT"
       /\ session.pc = "returned" =>
            session.prompt = <<"prompts.final(query)">>
  /\ session.pc = "running" => status = "running"

\* runToT has failed because a task below the root was rejected
C13_Witness ==
  /\ status = "failed"
  /\ session.pc = "returned"
  /\ \E c \in NodeIds \ {rootNodeId} : pc[c] = "rejected"

C19_UsageAccounting ==
  \A n \in NodeIds :
    calls[n].usage = calls[n].decomposition + calls[n].aggregation

\* a completion request of the divergence or the synthesis phase of the
\* followed leaf's pipeline run failed with a service error
LeafServiceError ==
  /\ pipe.caller = "leaf"
  /\ pipe.raised.cause = "service"
  /\ pipe.raised.phase \in {"divergence", "synthesis"}

\* C12 Service errors outside the critique phase are fatal to the node, as
\* claimed: when a completion request of a leaf node's divergence or
\* synthesis phase fails with a service error, that leaf node ends with
\* status failed rather than complete.
C12_ServiceErrorFatalToLeaf ==
  LeafServiceError /\ pc[pipe.node] = "resolved" =>
    nodes[pipe.node].status = "failed"

\* C12 as amended: such a service error is taken by the catch-all of the
\* pipeline, which issues no further request and returns without a master
\* blueprint, and the leaf node ends complete with the fallback blueprint
\* (the prompt the pipeline returned in runToT, "Direct response" in
\* executeToT); the leaf ends failed only when the pipeline call itself
\* throws, which happens in runToT when prompts.final(query) throws inside
\* the catch-all, and never in executeToT.
C12_ServiceErrorAbsorbed ==
  LeafServiceError =>
    /\ pipe.pc = "returned"
    /\ pipe.masterBlueprint = NoValue
    /\ pipe.raised.phase = "divergence" =>
         pipe.requests.critique = 0 /\ pipe.requests.synthesis = 0
    /\ pipe.outcome \in {"caught", "throw"}
    /\ pipe.outcome = "throw" => engine = "runToT"
    /\ pc[pipe.node] = "resolved" /\ pipe.outcome = "caught" =>
         /\ nodes[pipe.node].status = "complete"
         /\ nodes[pipe.node].result.solution =
              (IF engine = "runToT" THEN "leafPrompt" ELSE "Direct response")
    /\ pc[pipe.node] \in {"resolved", "rejected"} /\ pipe.outcome = "throw" =>
         nodes[pipe.node].status = "failed"

C12_Witness ==
  /\ LeafServiceError
  /\ pipe.raised.phase = "synthesis"
  /\ pc[pipe.node] = "resolved"
  /\ nodes[pipe.node].status = "complete"
  /\ nodes[pipe.node].result.solution = "Direct response"

\* C15 Fallback totality, as claimed: at each parse site, a response text
\* that is unparsable, empty, or parses but lacks a required field yields
\* the fallback value and raises no exception: the catch-all of the
\* pipeline never receives an exception raised by reading a response
\* value, a run that passed synthesis holds a blueprint with a safeguards
\* list, and an exception leaves the processing of a node only when a
\* request was rejected.
C15_FallbackTotality ==
  /\ pipe.raised.cause # "typeError"
  /\ pipe.outcome = "blueprint" => pipe.masterBlueprint.safeguards
  /\ \A n \in NodeIds : pc[n] = "rejected" => RequestThrew(n)

\* C16 Divergence never yields an empty strategy list, as claimed: the list
\* handed to the critique phase of runSynthesis or orchestrateDeepThink has
\* at least one element, whatever the divergence response was.
C16_StrategiesNonEmpty ==
  pipe.variant \in {"runSynthesis", "orchestrateDeepThink"}
    /\ pipe.pc = "critique" => Len(pipe.hypotheses) >= 1

\* C17 Leaf fan-out cap, as claimed: whenever the pipeline is run for a
\* leaf node of a tree, at most 3 strategies enter the critique phase and
\* at most 3 critique requests are issued, whatever number of strategies
\* the divergence response contained.
C17_LeafFanOutCap ==
  pipe.caller = "leaf" =>
    /\ Len(pipe.hypotheses) <= 3
    /\ pipe.requests.critique <= 3

\* C17 as amended: the cap holds for a leaf of runToT, which calls
\* runSynthesis with isToTMode = true: the first 3 strategies of the
\* response enter the critique phase, in their order, and one critique
\* request is issued for each. A leaf of executeToT calls
\* orchestrateDeepThink, which has no cap: every strategy of the response
\* enters the critique phase and gets a critique request. So does a run of
\* runSynthesis outside a tree.
C17_LeafFanOutCapRunToT ==
  /\ pipe.variant # "geminiService"
  /\ pipe.pc \notin {"idle", "divergence"}
  /\ pipe.raised.phase # "divergence"
  => LET entered ==
           IF pipe.variant = "runSynthesis" /\ pipe.isToTMode
             THEN Min(pipe.parsed, MAX_EXPLORE_PATHS)
             ELSE pipe.parsed
     IN  /\ pipe.caller = "leaf" /\ engine = "runToT" =>
              pipe.variant = "runSynthesis" /\ pipe.isToTMode
         /\ pipe.caller = "leaf" /\ engine = "executeToT" =>
              pipe.variant = "orchestrateDeepThink"
         /\ Len(pipe.hypotheses) = entered
         /\ \A i \in 1..entered :
              \/ pipe.hypotheses[i].id = i
              \/ pipe.hypotheses[i].id = 0 /\ entered = 1
         /\ pipe.requests.critique = entered

C17_Witness ==
  /\ pipe.caller = "leaf"
  /\ engine = "runToT"
  /\ pipe.parsed > MAX_EXPLORE_PATHS
  /\ pipe.pc = "synthesis"
  /\ pipe.requests.critique = MAX_EXPLORE_PATHS

\* the run of the Deliberation Pipeline whose process states are
\* diverging, critiquing and synthesizing
DeliberationRun ==
  pipe.variant \in {"runSynthesis", "orchestrateDeepThink"} /\ pipe.pc # "idle"

C18_Phases ==
  DeliberationRun =>
    /\ pipe.state \in {"diverging", "critiquing", "synthesizing"}
    /\ pipe.requests.divergence = 1
    /\ pipe.pc = "divergence" =>
         /\ pipe.state = "diverging"
         /\ pipe.requests.critique = 0
         /\ pipe.requests.synthesis = 0
    /\ pipe.state = "diverging" => pipe.requests.critique = 0
    /\ pipe.requests.critique = Len(pipe.hypotheses)
    /\ DOMAIN pipe.fanout = DOMAIN pipe.hypotheses
    /\ pipe.requests.synthesis \in {0, 1}
    /\ pipe.requests.synthesis = 1 <=> pipe.state = "synthesizing"
    /\ pipe.requests.synthesis = 1 =>
         \A i \in DOMAIN pipe.fanout :
           pipe.fanout[i] \in Settled /\ pipe.hypotheses[i].critique = pipe.fanout[i]

C18_Step ==
  DeliberationRun =>
    /\ pipe'.state # pipe.state =>
         \/ pipe.state = "diverging" /\ pipe'.state = "critiquing"
         \/ pipe.state = "critiquing" /\ pipe'.state = "synthesizing"
    /\ pipe'.requests.critique # pipe.requests.critique =>
         pipe.pc = "divergence" /\ pipe'.state = "critiquing"
    /\ pipe'.requests.synthesis # pipe.requests.synthesis =>
         pipe.pc = "critique" /\ pipe'.state = "synthesizing"
    /\ pipe'.requests.divergence = pipe.requests.divergence

\* C18 Pipeline phase ordering: in one run of the Deliberation Pipeline no
\* critique request is issued before the divergence response has been
\* received, exactly one critique request is issued per strategy, and the
\* synthesis request is issued only after every critique request has
\* completed; the process state moves only diverging -> critiquing ->
\* synthesizing.
C18_PhaseOrdering == []C18_Phases /\ [][C18_Step]_vars

C18_Witness ==
  /\ pipe.variant = "runSynthesis"
  /\ pipe.pc = "synthesis"
  /\ pipe.state = "synthesizing"
  /\ Len(pipe.hypotheses) = MaxStrategies
  /\ pipe.requests.critique = MaxStrategies
  /\ \E i, j \in DOMAIN pipe.fanout :
       pipe.fanout[i] = "parsed" /\ pipe.fanout[j] = "default"

\* the batches of the recovery: at most BATCH_SIZE requests are in flight,
\* all of the current batch; the batches before it have fully completed and
\* the strategies after it wait
BatchDiscipline ==
  /\ pipe.pc \in {"recovery", "cooldown", "synthesis", "returned"}
  /\ DOMAIN pipe.batch = DOMAIN pipe.strategies
  /\ Cardinality(CurrentBatch) <= BATCH_SIZE
  /\ \A i \in DOMAIN pipe.batch :
       /\ pipe.batch[i] = "inflight" => i \in CurrentBatch
       /\ i < pipe.batchAt => pipe.batch[i] \in Settled
       /\ i >= pipe.batchAt + BATCH_SIZE => pipe.batch[i] = "waiting"

\* the strategy list holds all N strategies, each critiqued, in their
\* original order
AllCritiquedInOrder ==
  /\ Len(pipe.hypotheses) = Len(pipe.strategies)
  /\ \A i \in DOMAIN pipe.hypotheses :
       /\ pipe.hypotheses[i].id = pipe.strategies[i]
       /\ pipe.hypotheses[i].critique \in Settled

\* C20 Rate-limit degradation, as claimed: if the parallel critique fan-out
\* over N strategies fails with a rate-limit signal, the pipeline re-runs
\* the critiques in consecutive batches of at most 3 (no batch starts
\* before the previous batch has fully completed), and once the batches are
\* through the strategy list contains all N strategies, each critiqued, in
\* their original order.
C20_RateLimitDegradation ==
  pipe.fanoutError = "rejected429" =>
    /\ pipe.recovery
    /\ BatchDiscipline
    /\ pipe.pc = "synthesis" => AllCritiquedInOrder

\* the same holds of the one version that has Batch Recovery Mode
RecoveryOfGeminiService ==
  /\ pipe.recovery <=>
       pipe.variant = "geminiService" /\ pipe.fanoutError = "rejected429"
  /\ pipe.variant = "geminiService" => C20_RateLimitDegradation
  /\ pipe.pc = "cooldown" => pipe.recovery /\ pipe.hypotheses = Verified(pipe)

\* the parallel critique fan-out failed with an exception that is not a
\* rate-limit signal
FanOutFailedOtherwise == pipe.fanoutError \in {"rejected", "typeError"}

\* C21 Non-rate-limit critique failures are not retried: if the parallel
\* critique fan-out fails with an exception that is not a rate-limit
\* signal, no critique request is re-issued (one request per strategy was
\* issued, no batch was started) and the exception is re-raised out of the
\* critique phase: it is the exception the catch-all of the run receives,
\* and no later phase is entered.
C21_NoRetryOtherwise ==
  FanOutFailedOtherwise =>
    /\ ~pipe.recovery
    /\ pipe.batch = <<>> /\ pipe.batchAt = 0
    /\ pipe.requests.critique = Len(pipe.strategies)
    /\ pipe.requests.synthesis = 0
    /\ pipe.pc = "returned"
    /\ pipe.state = FanOutState(pipe.variant)
    /\ pipe.raised = [phase |-> "critique", cause |-> CauseOf(pipe.fanoutError)]

C21_Witness ==
  /\ pipe.variant = "geminiService"
  /\ pipe.fanoutError = "rejected"
  /\ Len(pipe.strategies) = MaxStrategies
  /\ pipe.pc = "returned"
  /\ \E i \in DOMAIN pipe.fanout : pipe.fanout[i] = "inflight"

\* C22 Aggregator with exactly one child solution X returns
\* aggregatedSolution = X verbatim together with a single contribution
\* note, and issues no completion request.
C22_SingleChildBypass ==
  svc.fn = "aggregator" /\ Len(svc.children) = 1 =>
    /\ svc.requests = 0
    /\ svc.pc \in {"called", "returned"}
    /\ svc.pc = "returned" =>
         /\ svc.result.aggregatedSolution = Text(svc.children[1].solution)
         /\ Len(svc.result.childContributions) = 1
         /\ svc.children[1].query \in Range(svc.result.childContributions[1])

C22_Witness ==
  /\ svc.fn = "aggregator"
  /\ Len(svc.children) = 1
  /\ svc.children[1].solution = "X"
  /\ svc.pc = "returned"
  /\ svc.result.aggregatedSolution = <<"X">>

\* the pieces of a text that are no literal of the fallback's template
Literals == {"## Part ", ": ", "\n\n", "\n\n---\n\n"}
Content(text) == SelectSeq(text, LAMBDA piece : piece \notin Literals)

\* what a text holding every child exactly once, in input order, under
\* numbered headings, consists of
RECURSIVE PartsInOrder(_, _)
PartsInOrder(children, i) ==
  IF i > Len(children) THEN << >>
  ELSE <<Digits[i], children[i].query>> \o Text(children[i].solution)
         \o PartsInOrder(children, i + 1)

\* C23 Aggregator fallback, as claimed: for 2 or more children, whenever
\* the completion response is empty, unparsable, or lacks a string
\* aggregatedSolution field, or the request throws, the call returns the
\* concatenation of the child solutions under 'Part N' headings, which
\* contains every input child exactly once in input order and is non-empty.
C23_AggregatorFallback ==
  /\ svc.fn \in {"aggregator", "backbone"}
  /\ Len(svc.children) >= 2
  /\ svc.pc \in {"returned", "rejected"}
  /\ svc.response \notin {"solution", "solutionOnly"}
  => /\ svc.pc = "returned"
     /\ svc.result.aggregatedSolution # << >>
     /\ "## Part " \in Range(svc.result.aggregatedSolution)
     /\ Content(svc.result.aggregatedSolution) = PartsInOrder(svc.children, 1)

\* the aggregator of executeToT does what C23 says
FallbackOfAggregator == svc.fn = "aggregator" => C23_AggregatorFallback

Routing == svc.fn = "routeToOrchestrator"

\* C24 Engine Selector, forced mode, as claimed: whenever forceDeepMode is
\* set, routing executes the query with the ToT backbone, for every outcome
\* of the persona classification including an unknown or failed one, and no
\* ToT-necessity request is issued.
C24_ForcedMode ==
  Routing /\ svc.forceDeepMode =>
    /\ svc.requests.necessity = 0
    /\ svc.pc = "executing" => svc.backbone = "ToTBackbone"

\* the router of totPrompts.ts does what C24 says
ForcedModeOfTotPrompts == Routing /\ svc.version = "totPrompts" => C24_ForcedMode

\* C25 Engine Selector, unforced mode, as claimed: when forceDeepMode is not
\* set, the Tree Execution Engine is chosen only if the necessity
\* classifier both affirms need and reports a complexity other than
\* 'simple'; otherwise the Deliberation Pipeline is chosen.
C25_UnforcedNeedAndComplexity ==
  Routing /\ ~svc.forceDeepMode /\ svc.pc = "executing" =>
    /\ svc.backbone \in {"ToTBackbone", "SynthesisBackbone"}
    /\ svc.backbone = "ToTBackbone" =>
         /\ svc.requests.necessity = 1
         /\ svc.totDecision.needsToT
         /\ svc.totDecision.complexity # "simple"

\* C25 as amended: when forceDeepMode is not set, the Tree Execution Engine
\* is chosen if and only if the necessity classifier was asked and affirms
\* need; the complexity it reports has no effect. The classifier affirms
\* need exactly when its response is an object whose needsToT is true. In
\* registry.ts it is not asked when the persona classification names no
\* registered orchestrator, and the Deliberation Pipeline is chosen.
C25_UnforcedNeedOnly ==
  Routing /\ ~svc.forceDeepMode /\ svc.pc = "executing" =>
    /\ svc.backbone \in {"ToTBackbone", "SynthesisBackbone"}
    /\ svc.backbone = "ToTBackbone" <=>
         svc.requests.necessity = 1 /\ svc.totDecision.needsToT
    /\ svc.requests.necessity = 1 =>
         (svc.totDecision.needsToT <=>
            svc.necessity.kind = "json" /\ svc.necessity.needsToT = "true")
    /\ svc.requests.necessity = 0 <=>
         svc.version = "registry"
           /\ svc.recommended \notin RegisteredIds(svc.version)

C25_Witness ==
  /\ Routing
  /\ ~svc.forceDeepMode
  /\ svc.pc = "executing"
  /\ svc.backbone = "ToTBackbone"
  /\ svc.totDecision.complexity = "simple"

\* C26 Engine Selector fail-safe: when forceDeepMode is not set and the
\* necessity classification fails (the request throws or the response is
\* unparsable), the Deliberation Pipeline (Synthesis backbone) is chosen,
\* never the Tree Execution Engine.
C26_FailSafe ==
  /\ Routing
  /\ ~svc.forceDeepMode
  /\ svc.requests.necessity = 1
  /\ svc.pc # "deciding"
  /\ NecessityFailed(svc.necessity)
  => /\ ~svc.totDecision.needsToT
     /\ svc.backbone = "SynthesisBackbone"

C26_Witness ==
  /\ Routing
  /\ ~svc.forceDeepMode
  /\ svc.pc = "executing"
  /\ svc.requests.necessity = 1
  /\ svc.necessity.kind = "throw"
  /\ svc.backbone = "SynthesisBackbone"
  /\ svc.orchestrator = "developer"

\* C27 Snapshot immutability: every Tree State snapshot handed to the state
\* observer keeps, for the rest of the run, exactly the value it had when
\* it was emitted; no later node update, child registration or status
\* change alters any previously emitted snapshot.
C27_SnapshotImmutability ==
  svc.fn = "observer" =>
    \A i \in DOMAIN svc.emitted :
      SnapshotValue(svc.heap, svc.emitted[i].ref) = svc.emitted[i].value

C27_Witness ==
  /\ svc.fn = "observer"
  /\ svc.pc = "returned"
  /\ Len(svc.emitted) >= 4
  /\ \E i, j \in DOMAIN svc.emitted :
       /\ i < j
       /\ DOMAIN svc.emitted[i].value.nodes # DOMAIN svc.emitted[j].value.nodes
  /\ \E i, j \in DOMAIN svc.emitted :
       /\ i < j
       /\ svc.emitted[i].value.nodes[1].status # svc.emitted[j].value.nodes[1].status


(* ---- C28 ---------------------------------------------------------------*)
Written ==
  {m \in DOMAIN nodes' : m \notin DOMAIN nodes \/ nodes'[m] # nodes[m]}

C28_Step ==
  /\ DOMAIN nodes \subseteq DOMAIN nodes'
  /\ Written # {} =>
       \E n \in NodeIds :
         /\ pc'[n] # pc[n]
         /\ Written \subseteq
              {n} \cup {c \in DOMAIN nodes' \ DOMAIN nodes :
                          nodes'[c].parentId = n}
  /\ \A p \in NodeIds :
       pc[p] \in {"fanout", "join"} /\ pc'[p] \in {"fanout", "join"}
         => nodes'[p] = nodes[p]

(* C28: the sibling tasks of a fan-out write the one shared session state  *)
(* one at a time, each step writing only the record of the node whose task *)
(* takes it and the records of the children that task creates, so no write *)
(* of one task is lost to another and the parent's record is left alone    *)
(* from its fan-out to its join.                                           *)
C28_SubtreeLocalWrites == [][C28_Step]_vars

C28_Witness ==
  \E p \in NodeIds :
    /\ pc[p] = "join"
    /\ \E i, j \in 1..Len(nodes[p].children) :
         /\ i < j
         /\ nodes[nodes[p].children[i]].status = "executing"
         /\ nodes[nodes[p].children[j]].status = "complete"


(* ---- C29 ---------------------------------------------------------------*)
\* The sessions in which every request eventually returns or throws and the
\* event loop runs every continuation that is ready: some step is taken
\* whenever one is possible.
FairSpec == Spec /\ WF_vars(Next)

\* the session has come to its end, one way or the other
C29_Termination == <>(session.pc \in {"returned", "thrown"})

\* executeToT, whose catch returns the query itself, always returns
TerminationOfExecuteToT ==
  engine = "executeToT" =>
    /\ [](session.pc # "thrown")
    /\ <>(session.pc = "returned" /\ status \in {"complete", "failed"})

Aggregated(n) == calls[n].aggregation > 0

(* C30: when a parent aggregates, the input of the aggregation has exactly *)
(* one entry per child, in the order of the children; a child that has     *)
(* failed (it has no result) contributes the empty string as its solution, *)
(* without a marker, and every other child contributes its solution.       *)
C30_FailedChildrenIncluded ==
  \A n \in NodeIds :
    Aggregated(n) =>
      /\ Len(calls[n].childSolutions) = Len(nodes[n].children)
      /\ \A i \in 1..Len(nodes[n].children) :
           LET c == nodes[n].children[i]
               entry == calls[n].childSolutions[i]
           IN  /\ entry.child = c
               /\ nodes[c].status = "failed" => entry.solution = ""
               /\ nodes[c].result # NoResult =>
                    entry.solution = nodes[c].result.solution

\* a parent has aggregated with a failed child and a complete one
C30_Witness ==
  \E n \in NodeIds :
    /\ Aggregated(n)
    /\ \E i, j \in 1..Len(calls[n].childSolutions) :
         /\ nodes[calls[n].childSolutions[i].child].status = "failed"
         /\ calls[n].childSolutions[i].solution = ""
         /\ nodes[calls[n].childSolutions[j].child].status = "complete"


(* ---- C31 ---------------------------------------------------------------*)
(* C31: the force flag handed to the decomposition step is true only for   *)
(* the root node, at depth 0, and false for every other node, and the      *)
(* decomposition analysis of a node is invoked at most once in a session.  *)
C31_ForceScopeSingleVisit ==
  \A n \in NodeIds :
    /\ calls[n].analyses <= 1
    /\ calls[n].force => n = rootNodeId /\ nodes[n].depth = 0
    /\ n # rootNodeId => ~calls[n].force

\* the root was analysed with the flag set and a child without it
C31_Witness ==
  /\ calls[rootNodeId].analyses = 1
  /\ calls[rootNodeId].force
  /\ \E c \in NodeIds \ {rootNodeId} :
       calls[c].analyses = 1 /\ ~calls[c].force


(* ---- C32 ---------------------------------------------------------------*)
\* A session followed for the creation of its nodes only: the analyses, the
\* creation of children and the start of the leaves, with room for a tree
\* three levels deep below the root; what the leaves and the aggregations
\* do afterwards does not touch nodeOrder.
OrderInit ==
  /\ engine \in Engines
  /\ maxDepth = MaxDepthBound + 1
  /\ rootNodeId = 1
  /\ nodes = (1 :> createNode(0, 0))
  /\ nodeOrder = <<1>>
  /\ status = "running"
  /\ finalResult = NoValue
  /\ pc = (1 :> "idle")
  /\ decision = NoDecision
  /\ calls = (1 :> NoCalls)
  /\ session \in StartedSessions(engine)
  /\ pipe = NoPipe
  /\ svc = [fn |-> "processNode", pc |-> "idle"]

OrderNext ==
  \E n \in NodeIds :
    \/ BeginNode(n)
    \/ CreateChildren(n)
    \/ ExecuteLeaf(n)

OrderSpec == OrderInit /\ [][OrderNext]_vars

\* nodeOrder is the order of insertion: every node comes after its parent,
\* and the children of one node are next to each other in their order
InsertionOrder ==
  \A i \in 1..Len(nodeOrder) :
    LET n == nodeOrder[i]
    IN  /\ n = i
        /\ n # rootNodeId => nodes[n].parentId < n
        /\ \A k \in 1..Len(nodes[n].children) :
             nodes[n].children[k] = nodes[n].children[1] + k - 1

(* C32: in every reachable Tree State nodeOrder is in breadth-first order  *)
(* of the tree: the depths of the nodes along nodeOrder never decrease,    *)
(* whatever the interleaving of the children processed concurrently.       *)
C32_BreadthFirstOrder ==
  \A i, j \in 1..Len(nodeOrder) :
    i < j => nodes[nodeOrder[i]].depth <= nodes[nodeOrder[j]].depth


(* ---- C33 ---------------------------------------------------------------*)
(* C33: in every reachable Tree State and for every node, the result is    *)
(* present exactly when the status is complete, the error is present       *)
(* exactly when the status is failed, and completedAt is set exactly when  *)
(* the status is terminal (complete or failed).                            *)
C33_FieldPresence ==
  \A n \in NodeIds :
    /\ nodes[n].result # NoResult <=> nodes[n].status = "complete"
    /\ nodes[n].error # NoValue <=> nodes[n].status = "failed"
    /\ nodes[n].completedAt <=> nodes[n].status \in TerminalStatuses

\* a failed leaf, a complete leaf and their complete parent next to a node
\* that is still under way
C33_Witness ==
  /\ \E n \in NodeIds : nodes[n].status = "failed" /\ nodes[n].error # NoValue
  /\ \E n \in NodeIds :
       nodes[n].status = "complete" /\ nodes[n].result.type = "leaf"
  /\ \E n \in NodeIds :
       /\ nodes[n].status = "complete"
       /\ nodes[n].result.type = "aggregated"
       /\ nodes[n].completedAt
  /\ \E n \in NodeIds : nodes[n].status \notin TerminalStatuses


(* ---- C34 ---------------------------------------------------------------*)
\* the nodes that list c among their children
ListedBy(c) ==
  {p \in NodeIds : \E i \in 1..Len(nodes[p].children) : nodes[p].children[i] = c}

C34_Shape ==
  /\ Len(nodeOrder) >= 1 /\ nodeOrder[1] = rootNodeId
  /\ Range(nodeOrder) = NodeIds
  /\ \A i, j \in 1..Len(nodeOrder) : nodeOrder[i] = nodeOrder[j] => i = j
  /\ \A p \in NodeIds :
       \A i, j \in 1..Len(nodes[p].children) :
         nodes[p].children[i] = nodes[p].children[j] => i = j
  /\ ListedBy(rootNodeId) = {}
  /\ \A c \in NodeIds \ {rootNodeId} : ListedBy(c) = {nodes[c].parentId}

C34_Step ==
  /\ DOMAIN nodes \subseteq DOMAIN nodes'
  /\ rootNodeId' = rootNodeId
  /\ maxDepth' = maxDepth
  /\ \A n \in NodeIds :
       nodes[n].children # << >> => nodes'[n].children = nodes[n].children

(* C34: the set of node ids in the node map only grows, rootNodeId and     *)
(* maxDepth never change, nodeOrder lists exactly the keys of the node map *)
(* with each id once and the root first, every node but the root is in the *)
(* children list of exactly one node, the one its parentId names, and a    *)
(* node's children list is written at most once.                           *)
C34_WellFormedTree == []C34_Shape /\ [][C34_Step]_vars

\* a tree of three levels
C34_Witness ==
  \E p \in NodeIds \ {rootNodeId} :
    /\ Len(nodes[p].children) >= 2
    /\ \E c \in Children(p) : nodes[c].status = "complete"


(* ---- C35 ---------------------------------------------------------------*)
\* the usage increments emitted so far
UsageEmitted(cs) == [n \in DOMAIN cs |-> cs[n].usage]

\* a step that emits a snapshot, emits a usage increment or changes a node
Activity ==
  \/ nodes' # nodes
  \/ UsageEmitted(calls') # UsageEmitted(calls)
  \/ pipe'.usage # pipe.usage

(* C35: once the snapshot with the overall status complete or failed has   *)
(* been emitted and the session has returned, no further snapshot and no   *)
(* further usage increment is emitted and no node changes its status; the  *)
(* sibling tasks still running when a join was rejected do nothing more.   *)
C35_QuietAfterReturn ==
  [][session.pc = "returned" /\ status \in {"complete", "failed"}
       => ~Activity]_vars

\* a session that returned complete has no task left
QuietAfterComplete ==
  [][session.pc = "returned" /\ status = "complete" => ~Activity]_vars


(* ---- C36 ---------------------------------------------------------------*)
(* C36: in the Tree State returned to the caller, with the overall status  *)
(* complete or failed, every node of the node map has a terminal status,   *)
(* complete or failed; none is left pending, decomposing, executing or     *)
(* aggregating.                                                            *)
C36_AllTerminalAtReturn ==
  session.pc = "returned" /\ status \in {"complete", "failed"} =>
    \A n \in NodeIds : nodes[n].status \in TerminalStatuses

\* it is so in the sessions that return complete
AllTerminalWhenComplete ==
  status = "complete" =>
    \A n \in NodeIds : nodes[n].status \in TerminalStatuses


(* ---- C37 ---------------------------------------------------------------*)
(* C37: whatever the order in which the siblings finish, the list of child *)
(* solutions handed to the aggregation of a node is in the order of the    *)
(* node's children list, the i-th entry holding the query and the solution *)
(* of the i-th child.                                                      *)
C37_InputInListedOrder ==
  \A n \in NodeIds :
    Aggregated(n) =>
      calls[n].childSolutions =
        [i \in 1..Len(nodes[n].children) |->
           [child |-> nodes[n].children[i],
            solution |-> getNodeSolution(nodes[nodes[n].children[i]])]]

\* a parent has aggregated whose later child finished before an earlier one
C37_Witness ==
  \E n \in NodeIds :
    /\ Aggregated(n)
    /\ calls[n].overtaken
    /\ Len(calls[n].childSolutions) >= 2


(* ---- C38 ---------------------------------------------------------------*)
\* the critique requests that have been issued and not yet answered
Outstanding ==
  Cardinality({i \in DOMAIN pipe.fanout : pipe.fanout[i] = "inflight"})
  + Cardinality({i \in DOMAIN pipe.batch : pipe.batch[i] = "inflight"})

\* verifySingle reached updateTraceStep(stepId, {status: 'complete'})
StepCompletions == {"parsed", "default"}

BoundedRecovery == pipe.recovery => Outstanding <= BATCH_SIZE

\* a step the recovery has completed is completed again by the fan-out
CompletedTwice ==
  \E i \in DOMAIN pipe.batch :
    /\ pipe.recovery
    /\ pipe.batch[i] \in StepCompletions
    /\ pipe.fanout[i] = "inflight"
    /\ pipe'.fanout[i] \in StepCompletions

(* C38: once the critique phase has switched to batch recovery after a     *)
(* rate-limit signal, at most 3 critique requests are outstanding at any   *)
(* time, the requests of the initial fan-out still in flight included, and *)
(* a critique step that has completed is not completed a second time by a  *)
(* late response of the initial fan-out.                                   *)
C38_BoundedBatchRecovery == []BoundedRecovery /\ [][~CompletedTwice]_vars

\* each half on its own
NoSecondCompletion == [][~CompletedTwice]_vars

\* the batches themselves never hold more than 3 requests
BatchBounded ==
  Cardinality({i \in DOMAIN pipe.batch : pipe.batch[i] = "inflight"})
    <= BATCH_SIZE


(* ---- C39 ---------------------------------------------------------------*)
\* Two runs of runToT against one deterministic service. maxDepth is 2, so
\* only the root creates children and child i has the same id in every
\* run. The service is fixed when the first run starts: for every request a
\* run can issue, keyed by the node it is issued for, its outcome.
\*   rejects[n]      the decomposition request of n rejects
\*   subProblems     the sub-problems the root's analysis answers with
\*                   (0: the root is run as a leaf)
\*   leaf[n]         how the pipeline call for the query of n ends
\*   aggregation     the response to the root's aggregation request
\*   finalThrows     prompts.final(query) throws when called without a
\*                   blueprint (prompts is an input of both runs)
ChildIds == 2..(MaxSub + 1)

Services ==
  {s \in [rejects : [{1} \cup ChildIds -> BOOLEAN],
          subProblems : {0} \cup 2..MaxSub,
          leaf : [{1} \cup ChildIds -> PipelineOutcomes("runToT")],
          aggregation : AggregationResponses,
          finalThrows : BOOLEAN] :
     \* what no run can ask for is left at one value
     /\ \A n \in {1} \cup ChildIds :
          (s.rejects[n] \/ (n = 1 /\ s.subProblems # 0)
             \/ (n # 1 /\ (s.rejects[1] \/ n > s.subProblems + 1)))
            => s.leaf[n] = "blueprint"
     /\ \A n \in ChildIds :
          (s.rejects[1] \/ n > s.subProblems + 1) => ~s.rejects[n]
     /\ s.rejects[1] => s.subProblems = 0
     /\ s.subProblems = 0 => s.aggregation = "solution"}

\* what a run hands back: the tree, the overall status, finalResult and
\* the prompt (or that an exception came out instead)
Summary ==
  [nodes |-> [n \in NodeIds |->
                [parentId |-> nodes[n].parentId, depth |-> nodes[n].depth,
                 children |-> nodes[n].children, status |-> nodes[n].status,
                 result |-> nodes[n].result]],
   status |-> status, finalResult |-> finalResult,
   ended |-> session.pc, prompt |-> session.prompt]

NoSummary ==
  [nodes |-> << >>, status |-> NoValue, finalResult |-> NoValue,
   ended |-> NoValue, prompt |-> NoValue]

ScheduleInit ==
  /\ engine = "runToT"
  /\ maxDepth = 2
  /\ rootNodeId = 1
  /\ nodes = (1 :> createNode(0, 0))
  /\ nodeOrder = <<1>>
  /\ status = "running"
  /\ finalResult = NoValue
  /\ pc = (1 :> "idle")
  /\ decision = NoDecision
  /\ calls = (1 :> NoCalls)
  /\ session \in StartedSessions(engine)
  /\ pipe = NoPipe
  /\ \E s \in Services :
       svc = [fn |-> "runToT", pc |-> "idle", run |-> 1, service |-> s,
              first |-> NoSummary]

\* the step just taken got from the service what svc.service says
Deterministic ==
  /\ \A n \in NodeIds :
       /\ pc[n] = "decomp" /\ pc'[n] # "decomp" =>
            /\ pc'[n] = "rejected" <=> svc.service.rejects[n]
            /\ n = rootNodeId /\ pc'[n] # "rejected" =>
                 Len(nodes'[n].children) = svc.service.subProblems
       /\ pc[n] = "leaf" /\ pc'[n] # "leaf" =>
            IF svc.service.leaf[n] = "throw"
              THEN nodes'[n].status = "failed"
              ELSE /\ nodes'[n].status = "complete"
                   /\ nodes'[n].result.solution =
                        LeafBlueprint(engine, svc.service.leaf[n])
       /\ pc[n] = "aggr" /\ pc'[n] # "aggr" =>
            LET a == aggregateChildSolutions(engine, svc.service.aggregation)
            IN  IF a.threw THEN pc'[n] = "rejected"
                ELSE /\ pc'[n] = "resolved"
                     /\ nodes'[n].result.solution = a.aggregatedSolution
  /\ session.pc = "running" /\ status' = "failed" =>
       (session'.pc = "thrown" <=> svc.service.finalThrows)

\* a step of the run under way, up to its return
RunStep ==
  /\ session.pc = "running"
  /\ Next
  /\ Deterministic

\* the first run has ended: what it handed back is kept and runToT is
\* called again with the same arguments
SecondRun ==
  /\ svc.run = 1
  /\ session.pc # "running"
  /\ svc' = [svc EXCEPT !.run = 2, !.first = Summary]
  /\ nodes' = (1 :> createNode(0, 0))
  /\ nodeOrder' = <<1>>
  /\ status' = "running"
  /\ finalResult' = NoValue
  /\ pc' = (1 :> "idle")
  /\ decision' = NoDecision
  /\ calls' = (1 :> NoCalls)
  /\ session' = [session EXCEPT !.pc = "running", !.prompt = NoValue]
  /\ UNCHANGED <<engine, maxDepth, rootNodeId, pipe>>

ScheduleNext == RunStep \/ SecondRun

ScheduleSpec == ScheduleInit /\ [][ScheduleNext]_vars

\* no request of the service rejects
NothingRejects ==
  /\ \A n \in {1} \cup ChildIds : ~svc.service.rejects[n]
  /\ ~aggregateChildSolutions(engine, svc.service.aggregation).threw

\* the runs of a service none of whose requests rejects hand back the same
IndependenceWithoutRejection ==
  svc.run = 2 /\ session.pc # "running" /\ NothingRejects
    => Summary = svc.first

(* C39: against a deterministic completion service, two runs of runToT on  *)
(* the same query, maxDepth and prompts that differ only in the            *)
(* interleaving of the sibling tasks return the same prompt and final Tree *)
(* States with the same tree shape, node statuses, node results, overall   *)
(* status and finalResult.                                                 *)
C39_ScheduleIndependence ==
  svc.run = 2 /\ session.pc # "running" => Summary = svc.first
============================================================================
